---- MODULE Spec2Model ----
(***************************************************************************)
(* Model of the multimodal-rag ingestion pipeline: chunk identity          *)
(* (models/chunks.py), transcript chunking and fetching                    *)
(* (ingest/youtube.py), web page splitting (ingest/web.py), the vector     *)
(* store adapter (store/weaviate.py) and the ingestion entry point         *)
(* (ingest/__main__.py).                                                   *)
(*                                                                         *)
(* Conventions.  A Python str that the code splits, strips or slices is a  *)
(* sequence of one-character strings; a str that is only concatenated or   *)
(* compared (URLs, names) is a TLA+ string.  An Optional value is <<>>     *)
(* (None) or <<v>>.  Times are counted in ticks of 1/TicksPerSecond s, so  *)
(* that int(float) truncation is visible.  uuid5 and sha256 are modelled   *)
(* as collision-free digests: the digest is represented by its preimage.   *)
(***************************************************************************)
EXTENDS Integers, Sequences, FiniteSets, TLC

VARIABLES
    \* ---- ingestion run (ingest/__main__.py) ----
    pc,            \* position of run()
    manifest,      \* config/sources.yaml: [file, youtube, kb_sources], file being "missing", "invalid" or "valid"
    apiKey,        \* settings.mistral_api_key
    store,         \* the SupportChunk collection: chunk_id -> stored properties
    isOpen,        \* the store connection is open
    total_added,
    total_failed,
    ytIdx,         \* index of the YouTube source being processed
    kbIdx,         \* index of the knowledge base being processed
    pages,         \* pages of the current knowledge base still to process
    log,           \* observable events of the current run, in order
    exitStatus,    \* <<>> while running, <<n>> once the process has ended
    runNo,         \* 1 for the first run, 2 for a repeated run
    answers,       \* what the collaborators answered in the current run, in order
    uncaught,      \* the exception propagating out of run(), if any
    firstRun,      \* what the first run left: its answers and the store count after it
    \* ---- a call of a pure function under test ----
    call,          \* [op, arg, result]: the function under test, its input, and <<its result>> once applied
    \* ---- the chat page (app.py) ----
    chatbot,       \* the history shown: role-tagged messages, oldest first
    msg            \* the text in the question box

vars == <<pc, manifest, apiKey, store, isOpen, total_added, total_failed, ytIdx,
          kbIdx, pages, log, exitStatus, runNo, answers, uncaught, firstRun, call,
          chatbot, msg>>

\* all but the call under test
runVars == <<pc, manifest, apiKey, store, isOpen, total_added, total_failed, ytIdx,
             kbIdx, pages, log, exitStatus, runNo, answers, uncaught, firstRun,
             chatbot, msg>>

-----------------------------------------------------------------------------
(* Bounds of the model *)

MaxSources == 3        \* most sources (videos and knowledge bases) of a manifest
MaxSegments == 2       \* longest segment list handed to fetch_transcript_chunks
MaxContent == 4        \* longest page content handed to split_by_sections, in characters
MaxLines == 4          \* most lines of a page content handed to split_by_sections
TargetTokens == 2      \* settings.chunk_size, scaled down so that cuts happen
MaxStart == 2          \* largest start_seconds of a chunk handed to a conversion
MaxResults == 2        \* most passages a retrieval returns
MaxPieces == 2         \* most words and markers of an answer of the chat model
MaxTimedSegments == 4  \* most segments handed to chunk_segments on its own
MaxTargetTokens == 4   \* largest target_tokens handed to chunk_segments on its own
MaxFrames == 3         \* most keyframes of a video
MaxImages == 3         \* most images and runs of text of a page's markdown
MaxTurns == 2          \* most turns of a chat history
MaxStored == 2         \* most passages written before a retrieval
MaxChunks == 4         \* most chunks handed to one add_chunks
MaxTexts == 5          \* most texts handed to embed_texts
BatchSize == 2         \* _BATCH_SIZE (5 in the code), scaled down with the texts
MaxWords == 4          \* _MAX_WORDS (400 in the code), scaled down with the texts
RetryMaxWords == 2     \* _RETRY_MAX_WORDS (200 in the code), scaled down with the texts
TicksPerSecond == 2    \* resolution of float times

-----------------------------------------------------------------------------
(* Python values *)

None == <<>>
Some(v) == <<v>>

WS == {" ", "\n"}

Min(a, b) == IF a < b THEN a ELSE b
Max(a, b) == IF a > b THEN a ELSE b

\* str(n) of an int n
Digit(d) ==
    CASE d = 0 -> "0" [] d = 1 -> "1" [] d = 2 -> "2" [] d = 3 -> "3" [] d = 4 -> "4"
      [] d = 5 -> "5" [] d = 6 -> "6" [] d = 7 -> "7" [] d = 8 -> "8" [] d = 9 -> "9"

RECURSIVE Str(_)
Str(n) ==
    IF n < 0 THEN "-" \o Str(0 - n)
    ELSE IF n < 10 THEN Digit(n)
    ELSE Str(n \div 10) \o Digit(n % 10)

\* a character sequence as a TLA+ string
RECURSIVE PyStr(_)
PyStr(s) == IF s = <<>> THEN "" ELSE Head(s) \o PyStr(Tail(s))

\* s.lstrip(), s.rstrip(), s.strip()
RECURSIVE LStrip(_)
LStrip(s) == IF s # <<>> /\ Head(s) \in WS THEN LStrip(Tail(s)) ELSE s

RECURSIVE RStrip(_)
RStrip(s) ==
    IF s # <<>> /\ s[Len(s)] \in WS THEN RStrip(SubSeq(s, 1, Len(s) - 1)) ELSE s

Strip(s) == RStrip(LStrip(s))

\* the first word of s (s starts with a non-whitespace character)
RECURSIVE WordAt(_)
WordAt(s) ==
    IF s = <<>> \/ Head(s) \in WS THEN <<>> ELSE <<Head(s)>> \o WordAt(Tail(s))

\* s.split(): the maximal runs of non-whitespace characters
RECURSIVE Split(_)
Split(s) ==
    LET t == LStrip(s)
        w == WordAt(t)
    IN IF t = <<>> THEN <<>> ELSE <<w>> \o Split(SubSeq(t, Len(w) + 1, Len(t)))

\* " ".join(words)
RECURSIVE Join(_)
Join(words) ==
    IF words = <<>> THEN <<>>
    ELSE IF Len(words) = 1 THEN words[1]
    ELSE words[1] \o <<" ">> \o Join(Tail(words))

\* int(x) of a non-negative float x given in ticks
IntOfTicks(t) == t \div TicksPerSecond

-----------------------------------------------------------------------------
(* models/chunks.py *)

NAMESPACE_URL == "6ba7b811-9dad-11d1-80b4-00c04fd430c8"

uuid5(namespace, name) == <<"uuid5", namespace, name>>
sha256hex(s) == <<"sha256", s>>

TranscriptChunk(text, source_url, source_name, start_seconds, end_seconds) ==
    [text |-> text, source_url |-> source_url, source_name |-> source_name,
     start_seconds |-> start_seconds, end_seconds |-> end_seconds]

WebChunk(text, source_url, source_name, section_heading, image_url, chunk_index) ==
    [text |-> text, source_url |-> source_url, source_name |-> source_name,
     section_heading |-> section_heading, image_url |-> image_url,
     chunk_index |-> chunk_index]

\* SupportChunk(...) with model_post_init: chunk_id is an Optional on entry
SupportChunk(chunk_id, text, source_type, source_url, source_name, timestamp_seconds, section_heading, now) ==
    [chunk_id |-> IF chunk_id = None
                  THEN uuid5(NAMESPACE_URL, source_url \o "|" \o PyStr(text))
                  ELSE chunk_id[1],
     text |-> text,
     source_type |-> source_type,
     source_url |-> source_url,
     source_name |-> source_name,
     timestamp_seconds |-> timestamp_seconds,
     section_heading |-> section_heading,
     url_hash |-> sha256hex(source_url),
     ingested_at |-> now]

\* the name the uuid of a video passage is derived from, keyed on what was said
TextKey(chunk) == chunk.source_url \o "|" \o PyStr(chunk.text)

TranscriptKey(chunk) == chunk.source_url \o "|transcript|" \o Str(chunk.start_seconds)

\* from_transcript_chunk with an id that is made anew at every conversion
from_transcript_chunk_fresh(chunk, now) ==
    SupportChunk(Some(uuid5(NAMESPACE_URL, Str(now) \o "|" \o TranscriptKey(chunk))),
                 chunk.text, "video", chunk.source_url, chunk.source_name,
                 Some(chunk.start_seconds), None, now)

from_transcript_chunk(chunk, now) ==
    SupportChunk(Some(uuid5(NAMESPACE_URL, TranscriptKey(chunk))),
                 chunk.text, "video", chunk.source_url, chunk.source_name,
                 Some(chunk.start_seconds), None, now)

FrameKey(chunk) == chunk.source_url \o "|frame|" \o Str(chunk.start_seconds)

from_frame_chunk(chunk, now) ==
    SupportChunk(Some(uuid5(NAMESPACE_URL, FrameKey(chunk))),
                 chunk.text, "video", chunk.source_url, chunk.source_name,
                 Some(chunk.start_seconds), None, now)

from_web_chunk(chunk, now) ==
    IF chunk.chunk_index # None
    THEN SupportChunk(Some(uuid5(NAMESPACE_URL,
                                 chunk.source_url \o "|" \o Str(chunk.chunk_index[1]))),
                      chunk.text, "web", chunk.source_url, chunk.source_name,
                      None, chunk.section_heading, now)
    ELSE SupportChunk(None, chunk.text, "web", chunk.source_url, chunk.source_name,
                      None, chunk.section_heading, now)

\* the name the uuid of a screenshot is derived from, keyed on the page
PageKey(chunk) == chunk.source_url

\* the result is [raised |-> an Optional error, value |-> an Optional SupportChunk]
ScreenshotKey(chunk) == chunk.image_url[1]

from_screenshot_chunk(chunk, now) ==
    IF chunk.image_url = None
    THEN [raised |-> Some("ValueError"), value |-> None]
    ELSE [raised |-> None,
          value |-> Some(SupportChunk(Some(uuid5(NAMESPACE_URL, ScreenshotKey(chunk))),
                                      chunk.text, "web", chunk.source_url,
                                      chunk.source_name, None, chunk.section_heading,
                                      now))]

-----------------------------------------------------------------------------
(* ingest/youtube.py *)

\* The URLs of the model and what the two patterns of extract_video_id find in them.
UrlWatchA == "https://www.youtube.com/watch?v=aaaaaaaaaaa"
UrlShortB == "https://youtu.be/bbbbbbbbbbb"
UrlNoId == "https://www.youtube.com/playlist"

extract_video_id(url) ==
    CASE url = UrlWatchA -> Some("aaaaaaaaaaa")
      [] url = UrlShortB -> Some("bbbbbbbbbbb")
      [] OTHER -> None

Segment(text, start, duration) == [text |-> text, start |-> start, duration |-> duration]

\* round(word_count * 1.3)
TokenEstimateRounded(text) ==
    LET n == Len(Split(text)) * 13
        q == n \div 10
    IN IF 2 * (n % 10) < 10 \/ (2 * (n % 10) = 10 /\ q % 2 = 0) THEN q ELSE q + 1

\* int(word_count * 1.3)
TokenEstimate(text) == (Len(Split(text)) * 13) \div 10

\* One iteration of the loop of chunk_segments, for the segment at (1-based) index i.
\* st = [chunks, current_texts, current_token_estimate, chunk_start]
ChunkSegmentsStep(st, i, segments, source_url, source_name, target_tokens) ==
    LET segment == segments[i]
        text == Strip(segment.text)
        token_estimate == TokenEstimate(text)
        start0 == IF i = 1 \/ st.current_token_estimate = 0
                  THEN segment.start ELSE st.chunk_start
        cut == st.current_token_estimate + token_estimate > target_tokens
               /\ st.current_texts # <<>>
        last_seg == segments[Max(1, i - 1)]
        end == last_seg.start + last_seg.duration
        emitted == TranscriptChunk(Join(st.current_texts), source_url, source_name,
                                   IntOfTicks(start0), IntOfTicks(end))
    IN IF text = <<>> THEN st
       ELSE IF cut
       THEN [chunks |-> Append(st.chunks, emitted),
             current_texts |-> <<text>>,
             current_token_estimate |-> token_estimate,
             chunk_start |-> segment.start]
       ELSE [chunks |-> st.chunks,
             current_texts |-> Append(st.current_texts, text),
             current_token_estimate |-> st.current_token_estimate + token_estimate,
             chunk_start |-> start0]

RECURSIVE ChunkSegmentsLoop(_, _, _, _, _, _)
ChunkSegmentsLoop(st, i, segments, source_url, source_name, target_tokens) ==
    IF i > Len(segments) THEN st
    ELSE ChunkSegmentsLoop(
             ChunkSegmentsStep(st, i, segments, source_url, source_name, target_tokens),
             i + 1, segments, source_url, source_name, target_tokens)

\* the buffer left by the loop is never emitted
chunk_segments_unflushed(segments, source_url, source_name, target_tokens) ==
    ChunkSegmentsLoop([chunks |-> <<>>, current_texts |-> <<>>,
                       current_token_estimate |-> 0, chunk_start |-> 0],
                      1, segments, source_url, source_name, target_tokens).chunks

\* the last chunk ends where the last segment starts
chunk_segments_short(segments, source_url, source_name, target_tokens) ==
    LET st == ChunkSegmentsLoop([chunks |-> <<>>, current_texts |-> <<>>,
                                 current_token_estimate |-> 0, chunk_start |-> 0],
                                1, segments, source_url, source_name, target_tokens)
    IN IF st.current_texts # <<>>
       THEN Append(st.chunks,
                   TranscriptChunk(Join(st.current_texts), source_url, source_name,
                                   IntOfTicks(st.chunk_start),
                                   IntOfTicks(segments[Len(segments)].start)))
       ELSE st.chunks

chunk_segments(segments, source_url, source_name, target_tokens) ==
    LET st == ChunkSegmentsLoop([chunks |-> <<>>, current_texts |-> <<>>,
                                 current_token_estimate |-> 0, chunk_start |-> 0],
                                1, segments, source_url, source_name, target_tokens)
        last_seg == segments[Len(segments)]
        end == last_seg.start + last_seg.duration
    IN IF st.current_texts # <<>>
       THEN Append(st.chunks,
                   TranscriptChunk(Join(st.current_texts), source_url, source_name,
                                   IntOfTicks(st.chunk_start), IntOfTicks(end)))
       ELSE st.chunks

\* What fetch_transcript and fetch_voxtral_transcript answer for a video:
\* [kind |-> "segments", segments |-> ...] or [kind |-> <the error raised>].
CaptionErrors == {"TranscriptsDisabled", "NoTranscriptFound", "IpBlocked", "RuntimeError"}
VoxtralErrors == {"DownloadError", "RuntimeError"}
Answer(segments) == [kind |-> "segments", segments |-> segments]
Raises(error) == [kind |-> error, segments |-> <<>>]

\* except (TranscriptsDisabled, NoTranscriptFound, IpBlocked)
CaughtAsAnyCaptionError(error) ==
    error \in {"TranscriptsDisabled", "NoTranscriptFound", "IpBlocked"}
\* except DownloadError
CaughtAsDownloadError(error) == error = "DownloadError"
\* except (TranscriptsDisabled, NoTranscriptFound)
CaughtAsCaptionsUnavailable(error) == error \in {"TranscriptsDisabled", "NoTranscriptFound"}
\* except IpBlocked
CaughtAsIpBlocked(error) == error = "IpBlocked"
\* except Exception: every error of the model is an Exception
CaughtAsException(error) == error \in CaptionErrors \cup VoxtralErrors

\* fetch_transcript_chunks: [raised, chunks, calls], calls being the collaborators
\* invoked, in order.  captions and voxtral are what fetch_transcript and
\* fetch_voxtral_transcript answer when they are called.
FetchReturns(chunks, calls) == [raised |-> None, chunks |-> chunks, calls |-> calls]
FetchRaises(error, calls) == [raised |-> Some(error), chunks |-> <<>>, calls |-> calls]

\* lines 152-168: the segment list obtained, chunked unless empty
FetchChunked(segments, video_url, source_name, target_tokens, calls) ==
    IF segments = <<>>
    THEN FetchReturns(<<>>, calls)
    ELSE FetchReturns(chunk_segments(segments, video_url, source_name, target_tokens),
                      Append(calls, "chunk_segments"))

\* lines 126-144: the handler of TranscriptsDisabled / NoTranscriptFound
FetchFallback(video_url, source_name, target_tokens, mistral_api_key, voxtral, calls) ==
    LET called == Append(calls, "fetch_voxtral_transcript")
    IN IF mistral_api_key # ""
       THEN IF voxtral.kind = "segments"
            THEN FetchChunked(voxtral.segments, video_url, source_name, target_tokens,
                              called)
            ELSE IF CaughtAsException(voxtral.kind)
            THEN FetchReturns(<<>>, called)
            ELSE FetchRaises(voxtral.kind, called)
       ELSE FetchReturns(<<>>, calls)

fetch_transcript_chunks(video_url, source_name, target_tokens, mistral_api_key, captions, voxtral) ==
    LET c1 == <<"extract_video_id">>
        c2 == Append(c1, "fetch_transcript")
    IN IF extract_video_id(video_url) = None
       THEN FetchReturns(<<>>, c1)
       ELSE IF captions.kind = "segments"
       THEN FetchChunked(captions.segments, video_url, source_name, target_tokens, c2)
       ELSE IF CaughtAsCaptionsUnavailable(captions.kind)
       THEN FetchFallback(video_url, source_name, target_tokens, mistral_api_key,
                          voxtral, c2)
       ELSE IF CaughtAsIpBlocked(captions.kind)
       THEN FetchReturns(<<>>, c2)
       ELSE IF CaughtAsException(captions.kind)
       THEN FetchReturns(<<>>, c2)
       ELSE FetchRaises(captions.kind, c2)

-----------------------------------------------------------------------------
(* ingest/web.py *)

\* The number of consecutive characters of s, from index p on, that are in set cs.
RECURSIVE RunLength(_, _, _)
RunLength(s, p, cs) ==
    IF p <= Len(s) /\ s[p] \in cs THEN 1 + RunLength(s, p + 1, cs) ELSE 0

\* The index of the last character of the line that holds index q.
RECURSIVE LineEnd(_, _)
LineEnd(s, q) == IF q < Len(s) /\ s[q + 1] # "\n" THEN LineEnd(s, q + 1) ELSE q

\* The largest j <= w for which the character after j whitespace characters from
\* index p exists and is no newline (0 if there is none): where the greedy \s+
\* of the pattern stops so that (.+) can match.
RECURSIVE SpaceTaken(_, _, _)
SpaceTaken(s, p, w) ==
    IF w = 0 THEN 0
    ELSE IF p + w <= Len(s) /\ s[p + w] # "\n" THEN w
    ELSE SpaceTaken(s, p, w - 1)

\* re.compile(r"^(#{1,3})\s+(.+)$", re.MULTILINE) matched at index p of content:
\* <<>> if it does not match there, else <<[start, end, heading]>>, the match being
\* content[start..end] (1-based, inclusive) and heading its group 2.
SectionMatchAt(content, p) ==
    LET hashes == RunLength(content, p, {"#"})
        spaces == RunLength(content, p + hashes, WS)
        taken == SpaceTaken(content, p + hashes, spaces)
        q == p + hashes + taken
        e == LineEnd(content, q)
    IN IF /\ (p = 1 \/ content[p - 1] = "\n")
          /\ hashes >= 1 /\ hashes <= 3
          /\ taken >= 1
       THEN <<[start |-> p, end |-> e, heading |-> SubSeq(content, q, e)]>>
       ELSE <<>>

\* list(section_pattern.finditer(content)), searching from index p on
RECURSIVE SectionMatches(_, _)
SectionMatches(content, p) ==
    IF p > Len(content) THEN <<>>
    ELSE LET m == SectionMatchAt(content, p)
         IN IF m = <<>> THEN SectionMatches(content, p + 1)
            ELSE m \o SectionMatches(content, m[1].end + 1)

\* max(1, int(target_tokens / 1.3))
WordsPerChunk(target_tokens) == Max(1, (target_tokens * 10) \div 13)

\* the loop of _split_by_tokens over the words from index i on
RECURSIVE SplitWords(_, _, _, _, _, _)
SplitWords(words, i, words_per_chunk, source_url, source_name, section_heading) ==
    IF i > Len(words) THEN <<>>
    ELSE LET chunk_words == SubSeq(words, i, Min(Len(words), i + words_per_chunk - 1))
             chunk_text == Strip(Join(chunk_words))
             rest == SplitWords(words, i + words_per_chunk, words_per_chunk,
                                source_url, source_name, section_heading)
         IN IF chunk_text # <<>>
            THEN <<WebChunk(chunk_text, source_url, source_name, section_heading,
                            None, None)>> \o rest
            ELSE rest

_split_by_tokens(text, source_url, source_name, section_heading, target_tokens) ==
    LET words == Split(text)
    IN IF words = <<>> THEN <<>>
       ELSE SplitWords(words, 1, WordsPerChunk(target_tokens), source_url, source_name,
                       section_heading)

\* the loop of split_by_sections over the matches from index i on
RECURSIVE SplitSections(_, _, _, _, _, _)
SplitSections(content, matches, i, source_url, source_name, target_tokens) ==
    IF i > Len(matches) THEN <<>>
    ELSE LET heading == Strip(matches[i].heading)
             start == matches[i].end + 1
             end == IF i + 1 <= Len(matches) THEN matches[i + 1].start - 1
                    ELSE Len(content)
             section_text == Strip(SubSeq(content, start, end))
             rest == SplitSections(content, matches, i + 1, source_url, source_name,
                                   target_tokens)
         IN IF section_text # <<>>
            THEN _split_by_tokens(section_text, source_url, source_name,
                                  Some(heading), target_tokens) \o rest
            ELSE rest

\* the content before the first header is dropped
split_by_sections_headed(content, source_url, source_name, target_tokens) ==
    LET matches == SectionMatches(content, 1)
    IN IF matches = <<>>
       THEN _split_by_tokens(content, source_url, source_name, None, target_tokens)
       ELSE SplitSections(content, matches, 1, source_url, source_name, target_tokens)

split_by_sections(content, source_url, source_name, target_tokens) ==
    LET matches == SectionMatches(content, 1)
        pre_header == Strip(SubSeq(content, 1, matches[1].start - 1))
    IN IF matches = <<>>
       THEN _split_by_tokens(content, source_url, source_name, None, target_tokens)
       ELSE (IF pre_header # <<>>
             THEN _split_by_tokens(pre_header, source_url, source_name, None,
                                   target_tokens)
             ELSE <<>>)
            \o SplitSections(content, matches, 1, source_url, source_name,
                             target_tokens)

-----------------------------------------------------------------------------
(* store/weaviate.py *)

EmptyStore == [id \in {} |-> 0]

\* The properties add_chunks stores for a chunk (lines 94-103).
Props(chunk) ==
    [text |-> chunk.text,
     source_type |-> chunk.source_type,
     source_url |-> chunk.source_url,
     source_name |-> chunk.source_name,
     timestamp_seconds |-> chunk.timestamp_seconds,
     section_heading |-> IF chunk.section_heading = None \/ chunk.section_heading[1] = <<>>
                         THEN <<>> ELSE chunk.section_heading[1],
     url_hash |-> chunk.url_hash,
     ingested_at |-> chunk.ingested_at]

\* batch.add_object(properties, vector, uuid): the object with that uuid is written,
\* replacing the one the collection holds under the same uuid.
AddObject(st, chunk, vector) ==
    [id \in DOMAIN st \cup {chunk.chunk_id} |->
        IF id = chunk.chunk_id THEN [properties |-> Props(chunk), vector |-> vector]
        ELSE st[id]]

\* the loop over zip(chunks, vectors), from index i on
RECURSIVE AddObjects(_, _, _, _)
AddObjects(st, chunks, vectors, i) ==
    IF i > Min(Len(chunks), Len(vectors)) THEN st
    ELSE AddObjects(AddObject(st, chunks[i], vectors[i]), chunks, vectors, i + 1)

\* add_chunks: [raised, store, added].  embedded is what self._embed(texts) answers:
\* [raised |-> None, vectors |-> ...] or [raised |-> <<error>>].
add_chunks(st, chunks, embedded) ==
    IF chunks = <<>> THEN [raised |-> None, store |-> st, added |-> 0]
    ELSE IF embedded.raised # None
    THEN [raised |-> embedded.raised, store |-> st, added |-> 0]
    ELSE [raised |-> None,
          store |-> AddObjects(st, chunks, embedded.vectors, 1),
          added |-> Min(Len(chunks), Len(embedded.vectors))]

\* count()
count(st) == Cardinality(DOMAIN st)

\* An embedding backend that answers one vector per text, or raises.
Embedded(chunks, ok) ==
    IF ok THEN [raised |-> None, vectors |-> [i \in 1..Len(chunks) |-> <<"vector", chunks[i].text>>]]
    ELSE [raised |-> Some("EmbeddingError"), vectors |-> <<>>]

-----------------------------------------------------------------------------
(* The world of an ingestion run: what the sources of the manifest hold. *)

KbDocs == "https://docs.example.com"

YoutubeUrls == {UrlWatchA, UrlShortB}
KbNotes == "https://notes.example.com"
KbUrls == {KbDocs, KbNotes}

NameOf(url) ==
    CASE url = UrlWatchA -> "Video A"
      [] url = UrlShortB -> "Video B"
      [] url = KbNotes -> "Notes"
      [] OTHER -> "Docs"

\* UrlWatchA has captions; UrlShortB has them disabled and is transcribed from audio.
Captions(url) ==
    IF url = UrlWatchA
    THEN Answer(<<Segment(<<"a", " ", "b">>, 0, 5), Segment(<<"c", " ", "d">>, 5, 4)>>)
    ELSE Raises("TranscriptsDisabled")

Voxtral(url) == Answer(<<Segment(<<"e">>, 1, 3)>>)

\* what crawl_knowledge_base returns for a knowledge base: of the notes a blank
\* page and a page that is a heading only, of the docs a page that says a thing
\* twice and a page with a section
Crawl(url) ==
    IF url = KbNotes
    THEN <<[url |-> "https://notes.example.com/n1", content |-> <<" ", "\n">>],
           [url |-> "https://notes.example.com/n2", content |-> <<"#", " ", "h">>]>>
    ELSE
    <<[url |-> "https://docs.example.com/p1", content |-> <<"a", " ", "b", " ", "a">>],
      [url |-> "https://docs.example.com/p2", content |-> <<"#", " ", "h", "\n", "d">>]>>

\* every sequence over S of length at most n
SeqsUpTo(S, n) == UNION {[1..k -> S] : k \in 0..n}

Manifests ==
    {m \in {[file |-> "valid", youtube |-> y, kb_sources |-> k] :
                y \in SeqsUpTo(YoutubeUrls, MaxSources),
                k \in SeqsUpTo(KbUrls, MaxSources)} :
        Len(m.youtube) + Len(m.kb_sources) <= MaxSources}
    \cup {[file |-> f, youtube |-> <<>>, kb_sources |-> <<>>] : f \in {"missing", "invalid"}}

-----------------------------------------------------------------------------
(* ingest/__main__.py *)

Ev(op, src, ok, n, ids) == [op |-> op, src |-> src, ok |-> ok, n |-> n, ids |-> ids]

\* In a repeated run every collaborator answers as it did in the first run.
Replays(answer) ==
    \/ runNo = 1
    \/ /\ Len(answers) < Len(firstRun.answers)
       /\ firstRun.answers[Len(answers) + 1] = answer

RECURSIVE MapTranscript(_, _)
MapTranscript(tc, now) ==
    IF tc = <<>> THEN <<>>
    ELSE <<from_transcript_chunk(Head(tc), now)>> \o MapTranscript(Tail(tc), now)

RECURSIVE MapWeb(_, _)
MapWeb(wc, now) ==
    IF wc = <<>> THEN <<>>
    ELSE <<from_web_chunk(Head(wc), now)>> \o MapWeb(Tail(wc), now)

ChunkIds(chunks) == {chunks[i].chunk_id : i \in 1..Len(chunks)}

\* _ingest_chunks without the check for no chunks
_ingest_chunks_unguarded(st, chunks, label, embed_ok) ==
    LET r == add_chunks(st, chunks, Embedded(chunks, embed_ok))
    IN [raised |-> r.raised, store |-> r.store, added |-> r.added,
        events |-> <<Ev("add_chunks", label, r.raised = None, r.added, ChunkIds(chunks))>>]

\* _ingest_chunks: [raised, store, added, events]
_ingest_chunks(st, chunks, label, embed_ok) ==
    IF chunks = <<>>
    THEN [raised |-> None, store |-> st, added |-> 0, events |-> <<>>]
    ELSE LET r == add_chunks(st, chunks, Embedded(chunks, embed_ok))
         IN [raised |-> r.raised, store |-> r.store, added |-> r.added,
             events |-> <<Ev("add_chunks", label, r.raised = None, r.added,
                             ChunkIds(chunks))>>]

\* Guarded with an except clause that does not count the failure
GuardedUncounted(produced_ok, chunks, label, embed_ok) ==
    LET r == _ingest_chunks(store, chunks, label, embed_ok)
    IN IF produced_ok /\ r.raised = None
       THEN [store |-> r.store, total_added |-> total_added + r.added,
             total_failed |-> total_failed, events |-> r.events]
       ELSE [store |-> store, total_added |-> total_added,
             total_failed |-> total_failed,
             events |-> IF produced_ok THEN r.events ELSE <<>>]

\* A try block of run() that fetched or split and then ingested (lines 73-84 and
\* 106-117): the counters and the store after it.  produced_ok says whether the
\* fetch or split returned.
Guarded(produced_ok, chunks, label, embed_ok) ==
    LET r == _ingest_chunks(store, chunks, label, embed_ok)
    IN IF produced_ok /\ r.raised = None
       THEN [store |-> r.store, total_added |-> total_added + r.added,
             total_failed |-> total_failed, events |-> r.events]
       ELSE [store |-> store, total_added |-> total_added,
             total_failed |-> total_failed + 1,
             events |-> IF produced_ok THEN r.events ELSE <<>>]


NoCall == [op |-> "none", arg |-> <<>>, result |-> <<>>]

\* The state of a process about to run the entry point against a collection st.
Fresh(st) ==
    /\ pc = "start"
    /\ store = st
    /\ isOpen = FALSE
    /\ total_added = 0
    /\ total_failed = 0
    /\ ytIdx = 1
    /\ kbIdx = 1
    /\ pages = <<>>
    /\ log = <<>>
    /\ answers = <<>>
    /\ uncaught = None
    /\ exitStatus = None

Init ==
    /\ Fresh(EmptyStore)
    /\ manifest \in Manifests
    /\ apiKey \in {"", "key"}
    /\ runNo = 1
    /\ firstRun = [answers |-> <<>>, ids |-> {}]
    /\ call = NoCall
    /\ chatbot = <<>>
    /\ msg = <<>>

\* lines 49-55: settings, logging, load_sources()
LoadSources ==
    /\ pc = "start"
    /\ IF manifest.file = "missing"
       THEN /\ uncaught' = Some("SystemExit")
            /\ pc' = "after_block"
       ELSE IF manifest.file = "invalid"
       THEN /\ uncaught' = Some("ValidationError")
            /\ pc' = "after_block"
       ELSE /\ uncaught' = uncaught
            /\ pc' = "loaded"
    /\ log' = Append(log, Ev("load_sources", "", manifest.file = "valid", 0, {}))
    /\ UNCHANGED <<manifest, apiKey, store, isOpen, total_added, total_failed, ytIdx,
                   kbIdx, pages, exitStatus, runNo, answers, firstRun, call, chatbot, msg>>

\* lines 56-64: create_embeddings, WeaviateStore(...) connects, __enter__
OpenStore ==
    /\ pc = "loaded"
    /\ \E ok \in BOOLEAN :
        /\ Replays(IF ok THEN "ok" ELSE "connect_raises")
        /\ answers' = Append(answers, IF ok THEN "ok" ELSE "connect_raises")
        /\ isOpen' = ok
        /\ uncaught' = IF ok THEN uncaught ELSE Some("ConnectionError")
        /\ pc' = IF ok THEN "opened" ELSE "after_block"
        /\ log' = Append(log, Ev("connect", "", ok, 0, {}))
    /\ UNCHANGED <<manifest, apiKey, store, total_added, total_failed, ytIdx, kbIdx,
                   pages, exitStatus, runNo, firstRun, call, chatbot, msg>>

\* line 65: store.ensure_collection()
EnsureCollection ==
    /\ pc = "opened"
    /\ \E ok \in BOOLEAN :
        /\ Replays(IF ok THEN "ok" ELSE "ensure_raises")
        /\ answers' = Append(answers, IF ok THEN "ok" ELSE "ensure_raises")
        /\ uncaught' = IF ok THEN uncaught ELSE Some("EnsureCollectionError")
        /\ pc' = IF ok THEN "youtube" ELSE "exit_block"
        /\ log' = Append(log, Ev("ensure_collection", "", ok, 0, {}))
    /\ UNCHANGED <<manifest, apiKey, store, isOpen, total_added, total_failed, ytIdx,
                   kbIdx, pages, exitStatus, runNo, firstRun, call, chatbot, msg>>

\* time.sleep(seconds) before every source, the first included
SleepAlways(i, seconds) == <<Ev("sleep", "", TRUE, seconds, {})>>

\* time.sleep(seconds) before every source but the first of its list
Sleep(i, seconds) == IF i > 1 THEN <<Ev("sleep", "", TRUE, seconds, {})>> ELSE <<>>

\* lines 68-84: one iteration of the loop over sources.youtube
YoutubeSource ==
    /\ pc = "youtube"
    /\ ytIdx <= Len(manifest.youtube)
    /\ LET yt == manifest.youtube[ytIdx]
           label == "youtube:" \o NameOf(yt)
           tc == fetch_transcript_chunks(yt, NameOf(yt), TargetTokens, apiKey,
                                         Captions(yt), Voxtral(yt))
           chunks == MapTranscript(tc.chunks, runNo)
       \* fetch_raises: the call raises, as an injected fetch does and as anything
       \* else in the try block would; embed_raises: store.add_chunks raises
       IN \E answer \in {"ok", "fetch_raises", "embed_raises"} :
           /\ Replays(answer)
           /\ answer = "embed_raises" => tc.raised = None /\ chunks # <<>>
           /\ LET fetched == answer # "fetch_raises" /\ tc.raised = None
                  r == Guarded(fetched, chunks, label, answer # "embed_raises")
              IN /\ store' = r.store
                 /\ total_added' = r.total_added
                 /\ total_failed' = r.total_failed
                 /\ log' = log \o Sleep(ytIdx, 2)
                               \o <<Ev("fetch_transcript_chunks", yt, fetched,
                                       Len(tc.chunks), {})>>
                               \o r.events
           /\ answers' = Append(answers, answer)
    /\ ytIdx' = ytIdx + 1
    /\ UNCHANGED <<pc, manifest, apiKey, isOpen, kbIdx, pages, exitStatus, runNo,
                   uncaught, firstRun, call, chatbot, msg>>

\* the loop over sources.youtube ends
YoutubeDone ==
    /\ pc = "youtube"
    /\ ytIdx > Len(manifest.youtube)
    /\ pc' = "kb"
    /\ UNCHANGED <<manifest, apiKey, store, isOpen, total_added, total_failed, ytIdx,
                   kbIdx, pages, log, exitStatus, runNo, answers, uncaught, firstRun,
                   call, chatbot, msg>>

\* lines 87-101: the crawl of one knowledge base
CrawlKnowledgeBase ==
    /\ pc = "kb"
    /\ kbIdx <= Len(manifest.kb_sources)
    /\ LET kb == manifest.kb_sources[kbIdx]
       IN \E ok \in BOOLEAN :
           /\ Replays(IF ok THEN "ok" ELSE "crawl_raises")
           /\ answers' = Append(answers, IF ok THEN "ok" ELSE "crawl_raises")
           /\ log' = log \o Sleep(kbIdx, 5)
                         \o <<Ev("crawl_knowledge_base", kb, ok, 0, {})>>
           /\ IF ok
              THEN /\ pages' = Crawl(kb)
                   /\ pc' = "pages"
                   /\ UNCHANGED <<total_failed, kbIdx>>
              ELSE /\ total_failed' = total_failed + 1
                   /\ kbIdx' = kbIdx + 1
                   /\ UNCHANGED <<pages, pc>>
    /\ UNCHANGED <<manifest, apiKey, store, isOpen, total_added, ytIdx, exitStatus,
                   runNo, uncaught, firstRun, call, chatbot, msg>>

\* PagesAfter with the try block around the whole loop: a failing page ends it
PagesAfterAbort(ps, raised) == IF raised THEN <<>> ELSE Tail(ps)

\* The pages left once the try block of a page has been left, normally or through
\* its except clause (lines 103-117): the loop goes on with the next page.
PagesAfter(ps, raised) == Tail(ps)

\* lines 103-117: one iteration of the loop over the pages of a knowledge base
Page ==
    /\ pc = "pages"
    /\ pages # <<>>
    /\ LET kb == manifest.kb_sources[kbIdx]
           page == Head(pages)
           page_label == "kb:" \o NameOf(kb) \o "|" \o page.url
           web_chunks == split_by_sections(page.content, page.url, NameOf(kb),
                                           TargetTokens)
           chunks == MapWeb(web_chunks, runNo)
       IN \E answer \in {"ok", "embed_raises"} :
           /\ Replays(answer)
           /\ answer = "embed_raises" => chunks # <<>>
           /\ LET r == Guarded(TRUE, chunks, page_label, answer # "embed_raises")
              IN /\ store' = r.store
                 /\ total_added' = r.total_added
                 /\ total_failed' = r.total_failed
                 /\ log' = log \o <<Ev("split_by_sections", page.url, TRUE,
                                       Len(web_chunks), {})>>
                               \o r.events
           /\ answers' = Append(answers, answer)
           /\ pages' = PagesAfter(pages, answer # "ok")
    /\ UNCHANGED <<pc, manifest, apiKey, isOpen, ytIdx, kbIdx, exitStatus, runNo,
                   uncaught, firstRun, call, chatbot, msg>>

\* the loop over the pages of a knowledge base ends
PagesDone ==
    /\ pc = "pages"
    /\ pages = <<>>
    /\ pc' = "kb"
    /\ kbIdx' = kbIdx + 1
    /\ UNCHANGED <<manifest, apiKey, store, isOpen, total_added, total_failed, ytIdx,
                   pages, log, exitStatus, runNo, answers, uncaught, firstRun, call, chatbot, msg>>

\* the loop over sources.kb_sources ends
KbDone ==
    /\ pc = "kb"
    /\ kbIdx > Len(manifest.kb_sources)
    /\ pc' = "count"
    /\ UNCHANGED <<manifest, apiKey, store, isOpen, total_added, total_failed, ytIdx,
                   kbIdx, pages, log, exitStatus, runNo, answers, uncaught, firstRun,
                   call, chatbot, msg>>

\* line 119: total_in_store = store.count()
Count ==
    /\ pc = "count"
    /\ \E ok \in BOOLEAN :
        /\ Replays(IF ok THEN "ok" ELSE "count_raises")
        /\ answers' = Append(answers, IF ok THEN "ok" ELSE "count_raises")
        /\ uncaught' = IF ok THEN uncaught ELSE Some("CountError")
        /\ log' = Append(log, Ev("count", "", ok, IF ok THEN count(store) ELSE 0, {}))
    /\ pc' = "exit_block"
    /\ UNCHANGED <<manifest, apiKey, store, isOpen, total_added, total_failed, ytIdx,
                   kbIdx, pages, exitStatus, runNo, firstRun, call, chatbot, msg>>

\* ExitBlock with close() as the last statement of the block instead of __exit__:
\* an exception leaves the block without closing
ExitBlockLeaks ==
    /\ pc = "exit_block"
    /\ isOpen' = (uncaught # None)
    /\ log' = IF uncaught = None THEN Append(log, Ev("close", "", TRUE, 0, {})) ELSE log
    /\ pc' = "after_block"
    /\ UNCHANGED <<manifest, apiKey, store, total_added, total_failed, ytIdx, kbIdx,
                   pages, exitStatus, runNo, answers, uncaught, firstRun, call, chatbot, msg>>

\* WeaviateStore.__exit__ (store/weaviate.py lines 42-43): close(); the exception, if
\* any, is not suppressed
ExitBlock ==
    /\ pc = "exit_block"
    /\ isOpen' = FALSE
    /\ log' = Append(log, Ev("close", "", TRUE, 0, {}))
    /\ pc' = "after_block"
    /\ UNCHANGED <<manifest, apiKey, store, total_added, total_failed, ytIdx, kbIdx,
                   pages, exitStatus, runNo, answers, uncaught, firstRun, call, chatbot, msg>>

\* StatusOf of an entry point that swallows what run() raises
StatusOfSwallowed(exception) == 0

\* the exit status of the interpreter: 0 when run() returns, 1 on sys.exit(1) and on
\* an exception that nothing caught
StatusOf(exception) == IF exception = None THEN 0 ELSE 1

\* lines 121-126 and the end of the process
Finish ==
    /\ pc = "after_block"
    /\ exitStatus' = Some(StatusOf(uncaught))
    /\ log' = IF uncaught = None
              THEN Append(log, Ev("summary", "", TRUE, total_added, {}))
              ELSE log
    /\ pc' = "exited"
    /\ UNCHANGED <<manifest, apiKey, store, isOpen, total_added, total_failed, ytIdx,
                   kbIdx, pages, runNo, answers, uncaught, firstRun, call, chatbot, msg>>

Next ==
    \/ LoadSources
    \/ OpenStore
    \/ EnsureCollection
    \/ YoutubeSource
    \/ YoutubeDone
    \/ CrawlKnowledgeBase
    \/ Page
    \/ PagesDone
    \/ KbDone
    \/ Count
    \/ ExitBlock
    \/ Finish

Spec == Init /\ [][Next]_vars


\* The entry point is run a second time against the collection the first run left,
\* every collaborator answering as it did the first time.
Rerun ==
    /\ pc = "exited"
    /\ runNo = 1
    /\ runNo' = 2
    /\ firstRun' = [answers |-> answers, ids |-> DOMAIN store]
    /\ pc' = "start"
    /\ isOpen' = FALSE
    /\ total_added' = 0
    /\ total_failed' = 0
    /\ ytIdx' = 1
    /\ kbIdx' = 1
    /\ pages' = <<>>
    /\ log' = <<>>
    /\ answers' = <<>>
    /\ uncaught' = None
    /\ exitStatus' = None
    /\ UNCHANGED <<manifest, apiKey, store, call, chatbot, msg>>

NextTwice == Next \/ Rerun

SpecTwice == Init /\ [][NextTwice]_vars

-----------------------------------------------------------------------------
(* The functions of the pipeline called on their own, the entry point idle. *)

Idle ==
    /\ Fresh(EmptyStore)
    /\ manifest = [file |-> "valid", youtube |-> <<>>, kb_sources |-> <<>>]
    /\ apiKey = ""
    /\ runNo = 1
    /\ firstRun = [answers |-> <<>>, ids |-> {}]

InitCalls == Idle /\ call = NoCall /\ chatbot = <<>> /\ msg = <<>>

Called(op, arg, result) == [op |-> op, arg |-> arg, result |-> result]

\* Segment lists as fetch_transcript and transcribe_with_voxtral build them: every
\* segment has a text, a start and a duration; starts do not decrease.
SegmentTexts == {<<>>, <<"a">>, <<"a", " ", "b">>}
SegmentLists ==
    UNION {{[i \in 1..k |-> Segment(t[i], 3 * (i - 1), 2)] : t \in [1..k -> SegmentTexts]}
           : k \in 0..MaxSegments}

CallFetchTranscriptChunks ==
    /\ call.op = "none"
    /\ \E video_url \in {UrlWatchA, UrlShortB, UrlNoId},
          mistral_api_key \in {"", "key"},
          captions \in {Answer(l) : l \in SegmentLists} \cup {Raises(e) : e \in CaptionErrors},
          voxtral \in {Answer(l) : l \in SegmentLists} \cup {Raises(e) : e \in VoxtralErrors} :
          call' = Called("fetch_transcript_chunks",
                         [video_url |-> video_url, mistral_api_key |-> mistral_api_key,
                          captions |-> captions, voxtral |-> voxtral],
                         fetch_transcript_chunks(video_url, NameOf(video_url),
                                                 TargetTokens, mistral_api_key,
                                                 captions, voxtral))
    /\ UNCHANGED runVars

SpecFetch == InitCalls /\ [][CallFetchTranscriptChunks]_vars

\* The chunks handed to the conversions, in pairs; the two conversions of a pair
\* happen at different times.
Texts == {<<"a">>, <<"b">>}
TranscriptChunks ==
    {TranscriptChunk(t, u, NameOf(u), b, b + 1) :
        t \in Texts, u \in YoutubeUrls, b \in (0 - 1)..MaxStart}
ImageUrls == {"https://docs.example.com/i1.png", "https://docs.example.com/i2.png"}
PageUrls == {"https://docs.example.com/p1", "https://docs.example.com/p2"}
WebChunks ==
    {WebChunk(t, u, "Docs", None, i, None) :
        t \in Texts, u \in PageUrls, i \in {None} \cup {Some(x) : x \in ImageUrls}}

CallFromTranscriptChunk ==
    /\ call.op = "none"
    /\ \E c1, c2 \in TranscriptChunks :
          call' = Called("from_transcript_chunk", <<c1, c2>>,
                         <<from_transcript_chunk(c1, 1), from_transcript_chunk(c2, 2)>>)
    /\ UNCHANGED runVars

CallFromFrameChunk ==
    /\ call.op = "none"
    /\ \E c1, c2 \in TranscriptChunks :
          call' = Called("from_frame_chunk", <<c1, c2>>,
                         <<from_frame_chunk(c1, 1), from_frame_chunk(c2, 2)>>)
    /\ UNCHANGED runVars

CallFromScreenshotChunk ==
    /\ call.op = "none"
    /\ \E c1, c2 \in WebChunks :
          call' = Called("from_screenshot_chunk", <<c1, c2>>,
                         <<from_screenshot_chunk(c1, 1), from_screenshot_chunk(c2, 2)>>)
    /\ UNCHANGED runVars

NextIds == CallFromTranscriptChunk \/ CallFromFrameChunk \/ CallFromScreenshotChunk

SpecIds == InitCalls /\ [][NextIds]_vars

\* Page contents: every string of at most MaxContent characters over an alphabet
\* that has the header mark, both kinds of whitespace and a letter.
ContentChars == {"#", " ", "\n", "a"}
\* Pages as lines: text, headers of level 1 and 2 (one with spaces around its
\* text), a line of four hashes, an empty line, and a hash with nothing after it.
Lines == {<<"a">>, <<"b", " ", "c">>, <<"#", " ", "h">>, <<"#", "#", " ", " ", "g", " ">>,
          <<"#", "#", "#", "#", " ", "x">>, <<>>, <<"#">>}
RECURSIVE JoinedLines(_)
JoinedLines(lines) ==
    IF lines = <<>> THEN <<>>
    ELSE IF Len(lines) = 1 THEN lines[1]
    ELSE lines[1] \o <<"\n">> \o JoinedLines(Tail(lines))

Contents ==
    SeqsUpTo(ContentChars, MaxContent)
    \cup {JoinedLines(lines) : lines \in SeqsUpTo(Lines, MaxLines)}

CallSplitBySections ==
    /\ call.op = "none"
    /\ \E content \in Contents :
          call' = Called("split_by_sections", content,
                         split_by_sections(content, "https://docs.example.com/p1", "Docs",
                                           TargetTokens))
    /\ UNCHANGED runVars

SpecSplit == InitCalls /\ [][CallSplitBySections]_vars

-----------------------------------------------------------------------------
(* models/query.py, query/retriever.py, query/generator.py, app.py *)

\* The texts of the query side are sequences of pieces: a piece is a one-character
\* string or an opaque run of characters that holds no bracket and is not a number,
\* so that a marker "[n]" of the Python string is always the pieces "[", the digits
\* of n and "]".  The character U+2014 is the piece "EM DASH".

\* str(n) as pieces, n >= 0
RECURSIVE DigitsOf(_)
DigitsOf(n) == IF n < 10 THEN <<Digit(n)>> ELSE DigitsOf(n \div 10) \o <<Digit(n % 10)>>

\* f"{n:02d}", n >= 0
Pad2(n) == IF n < 10 THEN <<"0">> \o DigitsOf(n) ELSE DigitsOf(n)

\* round(x) of the float x = num / den, x >= 0 exactly representable: to the nearest
\* integer, a tie to the even one
Round(num, den) ==
    LET q == num \div den
        r == num % den
    IN IF 2 * r < den THEN q
       ELSE IF 2 * r > den THEN q + 1
       ELSE IF q % 2 = 0 THEN q ELSE q + 1

\* s.replace(old, new), old non-empty: the occurrences of old found from left to
\* right, none overlapping another
RECURSIVE Replace(_, _, _)
Replace(s, old, new) ==
    IF Len(s) < Len(old) THEN s
    ELSE IF SubSeq(s, 1, Len(old)) = old
    THEN new \o Replace(SubSeq(s, Len(old) + 1, Len(s)), old, new)
    ELSE <<Head(s)>> \o Replace(Tail(s), old, new)

\* "\n".join(lines)
RECURSIVE JoinLines(_)
JoinLines(lines) ==
    IF lines = <<>> THEN <<>>
    ELSE IF Len(lines) = 1 THEN lines[1]
    ELSE lines[1] \o <<"\n">> \o JoinLines(Tail(lines))

\* relevance_score is the float num / den
SearchResult(text, source_type, source_url, source_name, timestamp_seconds, section_heading, relevance_score) ==
    [text |-> text, source_type |-> source_type, source_url |-> source_url,
     source_name |-> source_name, timestamp_seconds |-> timestamp_seconds,
     section_heading |-> section_heading, relevance_score |-> relevance_score]

citation_url(r) ==
    IF r.source_type = "video" /\ r.timestamp_seconds # None
    THEN r.source_url \o <<"&", "t", "=">> \o DigitsOf(r.timestamp_seconds[1]) \o <<"s">>
    ELSE r.source_url

citation_label(r) ==
    IF r.source_type = "video" /\ r.timestamp_seconds # None
    THEN r.source_name \o <<" ", "@", " ">>
            \o Pad2(r.timestamp_seconds[1] \div 60) \o <<":">>
            \o Pad2(r.timestamp_seconds[1] % 60)
    ELSE IF r.section_heading # None /\ r.section_heading[1] # <<>>
    THEN r.source_name \o <<" ", "EM DASH", " ">> \o r.section_heading[1]
    ELSE r.source_name

\* round(relevance_score * 100)
score_pct(relevance_score) == Round(relevance_score.num * 100, relevance_score.den)

\* f"[{label}]({url}) ({score_pct}%)"
Link(label, url, relevance_score) ==
    <<"[">> \o label \o <<"]", "(">> \o url \o <<")", " ", "(">>
        \o DigitsOf(score_pct(relevance_score)) \o <<"%", ")">>

Citation(label, url, relevance_score, source_type) ==
    [label |-> label, url |-> url, relevance_score |-> relevance_score,
     source_type |-> source_type]

CitedAnswer(answer, citations) == [answer |-> answer, citations |-> citations]

\* f"[{i}]"
Marker(i) == <<"[">> \o DigitsOf(i) \o <<"]">>

_build_citations(results) ==
    [i \in 1..Len(results) |->
        Citation(citation_label(results[i]), citation_url(results[i]),
                 results[i].relevance_score, results[i].source_type)]

\* the loop of _replace_refs_with_links from result i on
RECURSIVE ReplaceRefsFrom(_, _, _)
ReplaceRefsFrom(text, results, i) ==
    IF i > Len(results) THEN text
    ELSE ReplaceRefsFrom(
             Replace(text, Marker(i),
                     Link(citation_label(results[i]), citation_url(results[i]),
                          results[i].relevance_score)),
             results, i + 1)

_replace_refs_with_links(text, results) == ReplaceRefsFrom(text, results, 1)

\* f"[{i}] {label}\n{r.text}" for every result, joined by blank lines
RECURSIVE ContextParts(_, _)
ContextParts(results, i) ==
    IF i > Len(results) THEN <<>>
    ELSE <<Marker(i) \o <<" ">> \o citation_label(results[i]) \o <<"\n">>
              \o results[i].text>>
         \o ContextParts(results, i + 1)

RECURSIVE JoinParts(_)
JoinParts(parts) ==
    IF parts = <<>> THEN <<>>
    ELSE IF Len(parts) = 1 THEN parts[1]
    ELSE parts[1] \o <<"\n", "\n">> \o JoinParts(Tail(parts))

format_context(results) == JoinParts(ContextParts(results, 1))

\* What llm.invoke answers: [kind |-> "content", content |-> ...], content being
\* None or the text of the response, or [kind |-> <the error raised>].
Content(c) == [kind |-> "content", content |-> c]
LlmRaises == [kind |-> "LlmError", content |-> None]

FallbackAnswer == <<"I couldn't find any relevant sources to answer your question.">>

\* if not results: the chat model is left alone whatever was retrieved
NeverShortCircuits(results) == FALSE

\* if not results
ShortCircuits(results) == results = <<>>

\* generate_cited_answer: [raised, value, calls]; value is an Optional CitedAnswer,
\* calls the collaborators invoked, in order; prompt is the human message
generate_cited_answer(question, results, llm) ==
    LET user_message == <<"## Sources", "\n", "\n">> \o format_context(results)
                            \o <<"\n", "\n", "## Question", "\n", "\n">> \o question
        called == <<"format_context", "llm.invoke">>
        raw_answer == IF llm.content = None \/ llm.content[1] = <<>>
                      THEN <<>> ELSE llm.content[1]
    IN IF ShortCircuits(results)
       THEN [raised |-> None, value |-> Some(CitedAnswer(FallbackAnswer, <<>>)),
             calls |-> <<>>, prompt |-> None]
       ELSE IF llm.kind # "content"
       THEN [raised |-> Some(llm.kind), value |-> None, calls |-> called,
             prompt |-> Some(user_message)]
       ELSE [raised |-> None,
             value |-> Some(CitedAnswer(_replace_refs_with_links(raw_answer, results),
                                        _build_citations(results))),
             calls |-> called, prompt |-> Some(user_message)]

\* _distance_to_score: distance is an Optional float num / den
_distance_to_score(distance) ==
    IF distance = None THEN [num |-> 0, den |-> 1]
    ELSE IF distance[1].num >= distance[1].den THEN [num |-> 0, den |-> distance[1].den]
    ELSE [num |-> distance[1].den - distance[1].num, den |-> distance[1].den]

\* a hit as WeaviateStore.search returns it: the stored properties and _distance
Hit(text, source_type, source_url, source_name, timestamp_seconds, section_heading, distance) ==
    [text |-> text, source_type |-> source_type, source_url |-> source_url,
     source_name |-> source_name, timestamp_seconds |-> timestamp_seconds,
     section_heading |-> section_heading, _distance |-> distance]

\* the SearchResult retrieve builds for a hit
\* a timestamp of 0 is taken for none
TimestampIfTruthy(ts) == IF ts = None \/ ts[1] = 0 THEN None ELSE ts

\* int(ts) if ts is not None else None
TimestampOf(ts) == IF ts = None THEN None ELSE Some(ts[1])

ResultOf(hit) ==
    SearchResult(hit.text, hit.source_type, hit.source_url, hit.source_name,
                 TimestampOf(hit.timestamp_seconds),
                 IF hit.section_heading = <<>> THEN None ELSE Some(hit.section_heading),
                 _distance_to_score(hit._distance))

\* WeaviateStore.search: [raised, hits, calls].  embedded is what self._embed([query])
\* answers, found what near_vector finds.
search(query, embedded, found) ==
    IF embedded.raised # None
    THEN [raised |-> embedded.raised, hits |-> <<>>, calls |-> <<"_embed">>]
    ELSE IF embedded.vectors = <<>>
    THEN [raised |-> None, hits |-> <<>>, calls |-> <<"_embed">>]
    ELSE [raised |-> None, hits |-> found, calls |-> <<"_embed", "near_vector">>]

\* retrieve: [raised, results, calls]
retrieve(query, embedded, found) ==
    LET raw_results == search(query, embedded, found)
    IN [raised |-> raw_results.raised,
        results |-> [i \in 1..Len(raw_results.hits) |-> ResultOf(raw_results.hits[i])],
        calls |-> <<"store.search">> \o raw_results.calls]

\* _format_citations_block
CitationLine(c) ==
    <<"-", " ", IF c.source_type = "video" THEN "CLAPPER BOARD" ELSE "PAGE FACING UP",
      " ">> \o Link(c.label, c.url, c.relevance_score)

_format_citations_block(answer) ==
    IF answer.citations = <<>> THEN answer.answer
    ELSE JoinLines(<<answer.answer, <<>>, <<"-", "-", "-">>, <<"**Sources:**">>>>
                   \o [i \in 1..Len(answer.citations) |-> CitationLine(answer.citations[i])])

EnterQuestion == <<"Please enter a question.">>

\* if not message: only the empty message counts as blank
BlankUntrimmed(message) == message = <<>>

\* if not message.strip()
Blank(message) == Strip(message) = <<>>

\* respond: [raised, reply, calls]; reply is an Optional text
respond(message, model, embedded, found, llm) ==
    LET retrieved == retrieve(message, embedded, found)
        generated == generate_cited_answer(message, retrieved.results, llm)
        c1 == <<"_make_llm", "retrieve">> \o retrieved.calls
        c2 == c1 \o <<"generate_cited_answer">> \o generated.calls
    IN IF Blank(message)
       THEN [raised |-> None, reply |-> Some(EnterQuestion), calls |-> <<>>]
       ELSE IF retrieved.raised # None
       THEN [raised |-> retrieved.raised, reply |-> None, calls |-> c1]
       ELSE IF generated.raised # None
       THEN [raised |-> generated.raised, reply |-> None, calls |-> c2]
       ELSE [raised |-> None,
             reply |-> Some(_format_citations_block(generated.value[1])),
             calls |-> Append(c2, "_format_citations_block")]

\* The hits of the model: a page, a video passage, and a page whose site name reads
\* like a citation marker; distances that give a tie in round(), a score of 0 and no
\* distance at all.
HitPage == Hit(<<"p">>, "web", <<"https://docs.example.com/p">>, <<"Docs">>, None, <<"Install">>, Some([num |-> 1, den |-> 8]))
HitVideo == Hit(<<"v">>, "video", <<"https://www.youtube.com/watch?v=aaaaaaaaaaa">>, <<"Video A">>, Some(62), <<>>, Some([num |-> 7, den |-> 8]))
HitMarked == Hit(<<"m">>, "web", <<"https://docs.example.com/m">>, <<"FAQ", " ", "[", "2", "]">>, None, <<>>, None)
Hits == {HitPage, HitVideo, HitMarked}
HitLists == SeqsUpTo(Hits, MaxResults)
ResultLists == {[i \in 1..Len(l) |-> ResultOf(l[i])] : l \in HitLists}

\* What the chat model writes: up to MaxPieces pieces, each a word or a marker, one
\* marker being beyond any result list.
Pieces == {<<"x">>} \cup {Marker(n) : n \in 1..(MaxResults + 1)}
RECURSIVE Concat(_)
Concat(ps) == IF ps = <<>> THEN <<>> ELSE Head(ps) \o Concat(Tail(ps))
RawAnswers == {Concat(ps) : ps \in SeqsUpTo(Pieces, MaxPieces)}
LlmAnswers == {Content(None), LlmRaises} \cup {Content(Some(a)) : a \in RawAnswers}
Messages == {<<>>, <<" ">>, <<"\n", " ">>, <<"q">>, <<" ", "q", "\n">>}
EmbeddedQueries == {[raised |-> None, vectors |-> <<<<"vector", "q">>>>],
                    [raised |-> None, vectors |-> <<>>],
                    [raised |-> Some("EmbeddingError"), vectors |-> <<>>]}

CallReplaceRefsWithLinks ==
    /\ call.op = "none"
    /\ \E pieces \in SeqsUpTo(Pieces, MaxPieces), results \in ResultLists :
          call' = Called("_replace_refs_with_links",
                         [pieces |-> pieces, text |-> Concat(pieces), results |-> results],
                         _replace_refs_with_links(Concat(pieces), results))
    /\ UNCHANGED runVars

CallGenerateCitedAnswer ==
    /\ call.op = "none"
    /\ \E results \in ResultLists, llm \in LlmAnswers :
          call' = Called("generate_cited_answer",
                         [question |-> <<"q">>, results |-> results, llm |-> llm],
                         generate_cited_answer(<<"q">>, results, llm))
    /\ UNCHANGED runVars

CallRespond ==
    /\ call.op = "none"
    /\ \E message \in Messages, embedded \in EmbeddedQueries, found \in HitLists,
          llm \in LlmAnswers :
          call' = Called("respond",
                         [message |-> message, embedded |-> embedded, found |-> found,
                          llm |-> llm],
                         respond(message, "model", embedded, found, llm))
    /\ UNCHANGED runVars

NextQuery == CallReplaceRefsWithLinks \/ CallGenerateCitedAnswer \/ CallRespond

SpecQuery == InitCalls /\ [][NextQuery]_vars

-----------------------------------------------------------------------------
(* Passages written by add_chunks and then found by retrieve *)

\* lines 132-139 of search: the properties of a stored object, with its distance
\* and its uuid
HitOfObject(id, object, distance) ==
    [text |-> object.properties.text,
     source_type |-> object.properties.source_type,
     source_url |-> object.properties.source_url,
     source_name |-> object.properties.source_name,
     timestamp_seconds |-> object.properties.timestamp_seconds,
     section_heading |-> object.properties.section_heading,
     url_hash |-> object.properties.url_hash,
     ingested_at |-> object.properties.ingested_at,
     _distance |-> distance,
     _uuid |-> id]

\* The passages written: of a transcript at 0 s and at 62 s, of a frame at 0 s, of
\* a page without a heading, with a heading, and with an empty heading.
StoredChunks ==
    {from_transcript_chunk(TranscriptChunk(<<"a">>, UrlWatchA, NameOf(UrlWatchA), b, b + 1), 1) : b \in {0, 62}}
    \cup {from_frame_chunk(TranscriptChunk(<<"f">>, UrlWatchA, NameOf(UrlWatchA), 0, 30), 1)}
    \cup {from_web_chunk(WebChunk(<<"b">>, "https://docs.example.com/p1", "Docs", h, None, None), 1) :
             h \in {None, Some(<<"I", "n">>), Some(<<>>)}}

\* near_vector(limit=top_k): some of the stored objects, each once, in some order
Found(st, limit) ==
    {ids \in SeqsUpTo(DOMAIN st, limit) : \A i, j \in 1..Len(ids) : i # j => ids[i] # ids[j]}

CallStoreThenRetrieve ==
    /\ call.op = "none"
    /\ \E chunks \in SeqsUpTo(StoredChunks, MaxStored),
          distance \in {None, Some([num |-> 1, den |-> 8])} :
          LET written == add_chunks(EmptyStore, chunks, Embedded(chunks, TRUE))
          IN \E ids \in Found(written.store, MaxResults) :
                LET hits == [i \in 1..Len(ids) |->
                                HitOfObject(ids[i], written.store[ids[i]], distance)]
                    retrieved == retrieve(<<"q">>, [raised |-> None, vectors |-> <<<<"vector", "q">>>>], hits)
                IN call' = Called("store_then_retrieve",
                                  [chunks |-> chunks, ids |-> ids],
                                  [store |-> written.store, results |-> retrieved.results])
    /\ UNCHANGED runVars

SpecRoundTrip == InitCalls /\ [][CallStoreThenRetrieve]_vars

-----------------------------------------------------------------------------
(* The chat page of app.py: the question box, the history and the Clear button *)

Message(role, content) == [role |-> role, content |-> content]

\* only the reply is appended to the history
user_submit_reply_only(message, history, reply) ==
    [msg |-> <<>>, chatbot |-> history \o <<Message("assistant", reply)>>]

\* user_submit, reply being what respond returned: the outputs for [msg, chatbot]
user_submit(message, history, reply) ==
    [msg |-> <<>>,
     chatbot |-> (history \o <<Message("user", message)>>)
                     \o <<Message("assistant", reply)>>]

\* the user types a question into the box
TypeQuestion ==
    /\ \E message \in Messages : msg' = message
    /\ UNCHANGED <<pc, manifest, apiKey, store, isOpen, total_added, total_failed, ytIdx,
                   kbIdx, pages, log, exitStatus, runNo, answers, uncaught, firstRun,
                   call, chatbot>>

\* msg.submit(user_submit, inputs=[msg, chatbot, model_dropdown],
\* outputs=[msg, chatbot]): when respond raises, user_submit raises and the page
\* keeps what it shows
Submit ==
    /\ Len(chatbot) < 2 * MaxTurns
    /\ \E embedded \in {e \in EmbeddedQueries : e.vectors # <<>> \/ e.raised # None},
          found \in {<<>>, <<HitPage>>},
          llm \in {Content(Some(<<"x">>)), LlmRaises} :
          LET replied == respond(msg, "model", embedded, found, llm)
              outputs == user_submit(msg, chatbot, replied.reply[1])
          IN IF replied.raised = None
             THEN msg' = outputs.msg /\ chatbot' = outputs.chatbot
             ELSE UNCHANGED <<msg, chatbot>>
    /\ UNCHANGED <<pc, manifest, apiKey, store, isOpen, total_added, total_failed, ytIdx,
                   kbIdx, pages, log, exitStatus, runNo, answers, uncaught, firstRun,
                   call>>

\* gr.ClearButton([msg, chatbot])
Clear ==
    /\ msg' = <<>>
    /\ chatbot' = <<>>
    /\ UNCHANGED <<pc, manifest, apiKey, store, isOpen, total_added, total_failed, ytIdx,
                   kbIdx, pages, log, exitStatus, runNo, answers, uncaught, firstRun,
                   call>>

NextChat == TypeQuestion \/ Submit \/ Clear
SpecChat == InitCalls /\ [][NextChat]_vars

-----------------------------------------------------------------------------
(* chunk_segments called on its own *)

\* Segment lists as fetch_transcript builds them, with blank texts, texts with
\* whitespace around them, and starts and durations that are no whole seconds:
\* each segment starts a gap after the start of the one before.
ChunkTexts == {<<" ">>, <<"a">>, <<" ", "a", " ", "b", "\n">>}
Shapes == {[gap |-> 1, duration |-> 1], [gap |-> TicksPerSecond + 1, duration |-> TicksPerSecond]}
RECURSIVE StartOf(_, _)
StartOf(shapes, i) == IF i = 0 THEN 0 ELSE StartOf(shapes, i - 1) + shapes[i].gap
TimedSegmentLists ==
    UNION {{[i \in 1..k |-> Segment(t[i], StartOf(sh, i), sh[i].duration)] :
                t \in [1..k -> ChunkTexts], sh \in [1..k -> Shapes]}
           : k \in 0..MaxTimedSegments}

CallChunkSegments ==
    /\ call.op = "none"
    /\ \E segments \in TimedSegmentLists, target_tokens \in 1..MaxTargetTokens :
          call' = Called("chunk_segments",
                         [segments |-> segments, target_tokens |-> target_tokens],
                         chunk_segments(segments, UrlWatchA, NameOf(UrlWatchA),
                                        target_tokens))
    /\ UNCHANGED runVars

SpecChunk == InitCalls /\ [][CallChunkSegments]_vars

-----------------------------------------------------------------------------
(* store/embeddings.py *)

\* _truncate
_truncate(text, max_words) ==
    LET words == Split(text)
    IN IF Len(words) <= max_words THEN text ELSE Join(SubSeq(words, 1, max_words))

\* What embeddings.embed_documents answers to a call: vectors, one per text, or an
\* exception with its message.
Vectors == [kind |-> "vectors", type |-> "", message |-> ""]
Error(type, message) == [kind |-> "error", type |-> type, message |-> message]
ErrContext == Error("Exception", "the input length exceeds the context length")
ErrContextUpper == Error("BadRequestError", "Context Length exceeded")
ErrNetwork == Error("ConnectionError", "network down")
BackendErrors == {ErrContext, ErrContextUpper, ErrNetwork}

embed_documents(batch, answer) ==
    IF answer.kind = "vectors"
    THEN [raised |-> None, vectors |-> [j \in 1..Len(batch) |-> <<"vector", batch[j]>>]]
    ELSE [raised |-> Some(answer), vectors |-> <<>>]

\* the k-th answer of the backend; a backend asked more often than scripted answers
AnswerAt(backend, k) == IF k <= Len(backend) THEN backend[k] ELSE Vectors

\* every exception is taken for a context-length error
IsAnyError(exc) == TRUE

\* "context length" in str(exc).lower()
IsContextLengthError(exc) ==
    exc.message \in {"the input length exceeds the context length",
                     "Context Length exceeded"}

\* all the texts that are left, whatever the batch size
BatchOfRest(safe_texts, i) == SubSeq(safe_texts, i, Len(safe_texts))

\* safe_texts[i : i + _BATCH_SIZE], i counted from 1
BatchOf(safe_texts, i) == SubSeq(safe_texts, i, Min(Len(safe_texts), i + BatchSize - 1))

\* the vectors of a batch take the place of those gathered before
ExtendReplacing(all_embeddings, batch_embeddings) == batch_embeddings

\* all_embeddings.extend(batch_embeddings)
Extend(all_embeddings, batch_embeddings) == all_embeddings \o batch_embeddings

\* the loop of embed_texts from the text at index i on: [raised, vectors, calls],
\* calls being the batches handed to embed_documents, in order
RECURSIVE EmbedBatches(_, _, _, _, _)
EmbedBatches(safe_texts, i, backend, calls, all_embeddings) ==
    IF i > Len(safe_texts)
    THEN [raised |-> None, vectors |-> all_embeddings, calls |-> calls]
    ELSE LET batch == BatchOf(safe_texts, i)
             first == embed_documents(batch, AnswerAt(backend, Len(calls) + 1))
             calls1 == Append(calls, batch)
             retry_batch == [j \in 1..Len(batch) |-> _truncate(batch[j], RetryMaxWords)]
             second == embed_documents(retry_batch, AnswerAt(backend, Len(calls) + 2))
             calls2 == Append(calls1, retry_batch)
         IN IF first.raised = None
            THEN EmbedBatches(safe_texts, i + BatchSize, backend, calls1,
                              Extend(all_embeddings, first.vectors))
            ELSE IF ~IsContextLengthError(first.raised[1])
            THEN [raised |-> first.raised, vectors |-> <<>>, calls |-> calls1]
            ELSE IF second.raised = None
            THEN EmbedBatches(safe_texts, i + BatchSize, backend, calls2,
                              Extend(all_embeddings, second.vectors))
            ELSE [raised |-> second.raised, vectors |-> <<>>, calls |-> calls2]

embed_texts(texts, backend) ==
    IF texts = <<>> THEN [raised |-> None, vectors |-> <<>>, calls |-> <<>>]
    ELSE EmbedBatches([j \in 1..Len(texts) |-> _truncate(texts[j], MaxWords)],
                      1, backend, <<>>, <<>>)

\* The texts handed to embed_texts: n words "1", "2", ..., n; a short one with
\* whitespace around it, one longer than the retry ceiling and one longer than the
\* normal ceiling.
RECURSIVE WordsText(_)
WordsText(n) ==
    IF n = 0 THEN <<>>
    ELSE IF n = 1 THEN DigitsOf(1)
    ELSE WordsText(n - 1) \o <<" ">> \o DigitsOf(n)
EmbedTexts == {<<" ", "a", "\n">>, WordsText(RetryMaxWords + 1), WordsText(MaxWords + 1)}

\* The ways a backend can answer a call of embed_texts over k batches, as far as it
\* is asked.
RECURSIVE Backends(_)
Backends(k) ==
    IF k = 0 THEN {<<>>}
    ELSE LET ctx == {ErrContext, ErrContextUpper}
         IN {<<ErrNetwork>>}
            \cup {<<c, e>> : c \in ctx, e \in BackendErrors}
            \cup {<<Vectors>> \o rest : rest \in Backends(k - 1)}
            \cup {<<c, Vectors>> \o rest : c \in ctx, rest \in Backends(k - 1)}

CallEmbedTexts ==
    /\ call.op = "none"
    /\ \E texts \in SeqsUpTo(EmbedTexts, MaxTexts) :
          \E backend \in Backends((Len(texts) + BatchSize - 1) \div BatchSize) :
             call' = Called("embed_texts", [texts |-> texts, backend |-> backend],
                            embed_texts(texts, backend))
    /\ UNCHANGED runVars

SpecEmbed == InitCalls /\ [][CallEmbedTexts]_vars

-----------------------------------------------------------------------------
(* WeaviateStore.add_chunks with the embedding backend of the store *)

\* What the store is seen doing: a batch handed to embed_documents, an object
\* handed to batch.add_object.
Did(op, what) == [op |-> op, what |-> what]
EmbedCalls(calls) == [i \in 1..Len(calls) |-> Did("embed_documents", calls[i])]
Writes(chunks, n) == [i \in 1..n |-> Did("add_object", chunks[i].chunk_id)]

\* texts = [c.text for c in chunks]
TextsOf(chunks) == [i \in 1..Len(chunks) |-> chunks[i].text]

\* add_chunks that embeds and writes batch by batch: the chunks of the batches
\* embedded before the failing one are written
StoreAddChunksPerBatch(st, chunks, backend) ==
    LET texts == TextsOf(chunks)
        whole == embed_texts(texts, backend)
        done == {n \in 0..Len(chunks) :
                    /\ n % BatchSize = 0 \/ n = Len(chunks)
                    /\ embed_texts(SubSeq(texts, 1, n), backend).raised = None}
        k == CHOOSE n \in done : \A m \in done : m <= n
        r == add_chunks(st, SubSeq(chunks, 1, k), embed_texts(SubSeq(texts, 1, k), backend))
    IN [raised |-> whole.raised, store |-> r.store, added |-> r.added,
        events |-> EmbedCalls(whole.calls) \o Writes(chunks, r.added)]

\* add_chunks (lines 81-112) of a store whose _embed hands the texts to embed_texts
\* with the store's backend: [raised, store, added, events]
StoreAddChunks(st, chunks, backend) ==
    LET embedded == IF chunks = <<>>
                    THEN [raised |-> None, vectors |-> <<>>, calls |-> <<>>]
                    ELSE embed_texts(TextsOf(chunks), backend)
        r == add_chunks(st, chunks, embedded)
    IN [raised |-> r.raised, store |-> r.store, added |-> r.added,
        events |-> EmbedCalls(embedded.calls) \o Writes(chunks, r.added)]

\* The chunks handed to add_chunks: passages of one page, one of them longer than
\* the retry ceiling; and the stores they are added to: an empty one, and one that
\* holds the first passage from an earlier run.
PagePassage(text, now) ==
    from_web_chunk(WebChunk(text, "https://docs.example.com/p1", "Docs", None, None, None), now)
AddedChunks == {PagePassage(t, 1) : t \in {<<"a">>, <<"b">>, WordsText(RetryMaxWords + 1)}}
StoresBefore == {EmptyStore, AddObject(EmptyStore, PagePassage(<<"a">>, 0), <<"vector", <<"a">>>>)}

CallAddChunks ==
    /\ call.op = "none"
    /\ \E chunks \in SeqsUpTo(AddedChunks, MaxChunks), st \in StoresBefore :
          \E backend \in Backends((Len(chunks) + BatchSize - 1) \div BatchSize) :
             call' = Called("add_chunks", [st |-> st, chunks |-> chunks, backend |-> backend],
                            StoreAddChunks(st, chunks, backend))
    /\ UNCHANGED runVars

SpecStore == InitCalls /\ [][CallAddChunks]_vars

-----------------------------------------------------------------------------
(* ingest/video_frames.py and ingest/web_images.py *)

\* The files of the machine, as paths: those there before a call, and the
\* directory that tempfile.TemporaryDirectory() makes.
Disk == {<<"/home", "notes.txt">>}
TmpDir == "/tmp/tmpdir"
Within(fs, dir) == {path \in fs : path[1] = dir}

\* the directory is removed on a normal return only
ExitOnReturnOnly(fs, dir, raised) == IF raised = None THEN fs \ Within(fs, dir) ELSE fs

\* TemporaryDirectory.__exit__: the directory and all in it are removed, whether
\* the body returned or raised
ExitTemporaryDirectory(fs, dir, raised) == fs \ Within(fs, dir)

\* What download_audio does: the file it wrote into output_dir, or the error it
\* raised, with or without a partial file left behind.
Downloads(dir) ==
    {[raised |-> None, files |-> {<<dir, "aaaaaaaaaaa.m4a">>}],
     [raised |-> Some("DownloadError"), files |-> {<<dir, "aaaaaaaaaaa.m4a.part">>}],
     [raised |-> Some("DownloadError"), files |-> {}],
     [raised |-> Some("FileNotFoundError"), files |-> {}]}

\* fetch_voxtral_transcript: [raised, segments, made, left], made being the files
\* just before the with block is left and left those after the call.
\* transcription is what transcribe_with_voxtral answers.
fetch_voxtral_transcript(video_url, api_key, download, transcription) ==
    LET made == Disk \cup {<<TmpDir>>} \cup download.files
        raised == IF download.raised # None THEN download.raised
                  ELSE IF transcription.kind # "segments" THEN Some(transcription.kind)
                  ELSE None
    IN [raised |-> raised,
        segments |-> IF raised = None THEN transcription.segments ELSE <<>>,
        made |-> made,
        left |-> ExitTemporaryDirectory(made, TmpDir, raised)]

\* What describe_frame and describe_image answer: a description, or an exception
\* (of reading the frame, of fetching the image, or of the vision model).
Described(text) == [raised |-> None, text |-> text]
DescribeRaises(error) == [raised |-> Some(error), text |-> <<>>]

\* extract_keyframes: the n frames that ffmpeg wrote, sorted, each with its nominal
\* timestamp i * interval_seconds, i counted from 0
extract_keyframes(n, interval_seconds) ==
    [i \in 1..n |-> [path |-> <<"frame", i>>, timestamp |-> (i - 1) * interval_seconds]]

\* the failure of a frame ends the loop over the frames
FrameAborts(called, rest) == [chunks |-> <<>>, calls |-> <<called>>]

\* except Exception: logger.warning(...), and the loop goes on
FrameSkipped(called, rest) == [chunks |-> rest.chunks, calls |-> <<called>> \o rest.calls]

\* the loop of fetch_frame_chunks over the frames from index i on: [chunks, calls]
RECURSIVE DescribeFrames(_, _, _, _, _, _)
DescribeFrames(frames, i, described, video_url, video_title, interval_seconds) ==
    IF i > Len(frames) THEN [chunks |-> <<>>, calls |-> <<>>]
    ELSE LET timestamp == frames[i].timestamp
             called == <<"describe_frame", frames[i].path>>
             rest == DescribeFrames(frames, i + 1, described, video_url, video_title,
                                    interval_seconds)
         IN IF described[i].raised = None
            THEN [chunks |-> <<TranscriptChunk(described[i].text, video_url, video_title,
                                               timestamp, timestamp + interval_seconds)>>
                             \o rest.chunks,
                  calls |-> <<called>> \o rest.calls]
            ELSE FrameSkipped(called, rest)

\* fetch_frame_chunks: [raised, chunks, calls, made, left].  download is what
\* download_video answers ("ok" or the error raised), keyframes what
\* extract_keyframes does ([raised, n]), described what describe_frame answers for
\* each frame; made and left are the files just before the with block is left and
\* after the call.  A failed download or extraction leaves a partial file.
fetch_frame_chunks(video_url, video_title, interval_seconds, download, keyframes, described) ==
    LET entered == <<<<"TemporaryDirectory">>, <<"download_video", video_url>>>>
        extracted == Append(entered, <<"extract_keyframes", interval_seconds>>)
        frames == extract_keyframes(keyframes.n, interval_seconds)
        loop == DescribeFrames(frames, 1, described, video_url, video_title,
                               interval_seconds)
        dirs == Disk \cup {<<TmpDir>>, <<TmpDir, "video">>, <<TmpDir, "frames">>}
        video == dirs \cup {<<TmpDir, "video", IF download = "ok" THEN "v.mp4" ELSE "v.mp4.part">>}
        written == video \cup {<<TmpDir, "frames", frames[i].path>> : i \in 1..Len(frames)}
                         \cup (IF keyframes.raised # None
                               THEN {<<TmpDir, "frames", <<"frame", 1>>>>} ELSE {})
    IN IF download # "ok"
       THEN [raised |-> Some(download), chunks |-> <<>>,
             calls |-> Append(entered, <<"cleanup">>),
             made |-> video,
             left |-> ExitTemporaryDirectory(video, TmpDir, Some(download))]
       ELSE IF keyframes.raised # None
       THEN [raised |-> keyframes.raised, chunks |-> <<>>,
             calls |-> Append(extracted, <<"cleanup">>),
             made |-> written,
             left |-> ExitTemporaryDirectory(written, TmpDir, keyframes.raised)]
       ELSE [raised |-> None, chunks |-> loop.chunks,
             calls |-> Append(extracted \o loop.calls, <<"cleanup">>),
             made |-> written,
             left |-> ExitTemporaryDirectory(written, TmpDir, None)]

\* A page's markdown, as far as _IMAGE_URL_RE sees it: images of an absolute or a
\* relative URL, and other text.
Image(url) == [kind |-> "image", url |-> url]
Prose == [kind |-> "text", url |-> ""]
RelativeUrl == "/img/rel.png"
IsAbsolute(url) == url \in ImageUrls

\* extract_image_urls: the absolute image URLs from piece i on, each once, seen
\* being those already found
RECURSIVE ExtractFrom(_, _, _)
ExtractFrom(markdown, i, seen) ==
    IF i > Len(markdown) THEN <<>>
    ELSE LET piece == markdown[i]
         IN IF piece.kind = "image" /\ IsAbsolute(piece.url) /\ piece.url \notin seen
            THEN <<piece.url>> \o ExtractFrom(markdown, i + 1, seen \cup {piece.url})
            ELSE ExtractFrom(markdown, i + 1, seen)

extract_image_urls(markdown) == ExtractFrom(markdown, 1, {})

\* except Exception: logger.warning(...), and the loop goes on
ImageSkipped(called, rest) == [chunks |-> rest.chunks, calls |-> <<called>> \o rest.calls]

\* the loop of fetch_image_chunks over the image URLs from index i on
RECURSIVE DescribeImages(_, _, _, _, _)
DescribeImages(image_urls, i, described, page_url, page_title) ==
    IF i > Len(image_urls) THEN [chunks |-> <<>>, calls |-> <<>>]
    ELSE LET image_url == image_urls[i]
             called == <<"describe_image", image_url>>
             rest == DescribeImages(image_urls, i + 1, described, page_url, page_title)
         IN IF described[image_url].raised = None
            THEN [chunks |-> <<WebChunk(described[image_url].text, page_url, page_title,
                                        None, Some(image_url), None)>> \o rest.chunks,
                  calls |-> <<called>> \o rest.calls]
            ELSE ImageSkipped(called, rest)

\* fetch_image_chunks: [raised, chunks, calls], described being what describe_image
\* answers for each image URL
fetch_image_chunks(page_url, page_title, markdown, described) ==
    LET loop == DescribeImages(extract_image_urls(markdown), 1, described, page_url,
                               page_title)
    IN [raised |-> None, chunks |-> loop.chunks, calls |-> loop.calls]

Descriptions == {Described(<<"m", "e", "n", "u">>), Described(<<"f", "o", "r", "m">>),
                 Described(<<>>), DescribeRaises("TimeoutError")}

CallFetchFrameChunks ==
    /\ call.op = "none"
    /\ \E video_url \in YoutubeUrls, interval_seconds \in {1, 30},
          download \in {"ok", "DownloadError"},
          keyframes \in {[raised |-> None, n |-> n] : n \in 0..MaxFrames}
                        \cup {[raised |-> Some("CalledProcessError"), n |-> 0]} :
          \E described \in [1..keyframes.n -> Descriptions] :
             /\ download # "ok" => keyframes.n = 0 /\ keyframes.raised = None
             /\ call' = Called("fetch_frame_chunks",
                               [video_url |-> video_url, interval_seconds |-> interval_seconds,
                                download |-> download, keyframes |-> keyframes,
                                described |-> described],
                               fetch_frame_chunks(video_url, NameOf(video_url),
                                                  interval_seconds, download, keyframes,
                                                  described))
    /\ UNCHANGED runVars

CallFetchImageChunks ==
    /\ call.op = "none"
    /\ \E page_url \in PageUrls,
          markdown \in SeqsUpTo({Image(u) : u \in ImageUrls \cup {RelativeUrl}} \cup {Prose},
                                MaxImages),
          described \in [ImageUrls -> Descriptions] :
          /\ \A u \in ImageUrls :
                (\A i \in 1..Len(markdown) : markdown[i].url # u)
                    => described[u] = Described(<<>>)
          /\ call' = Called("fetch_image_chunks",
                            [page_url |-> page_url, markdown |-> markdown,
                             described |-> described],
                            fetch_image_chunks(page_url, "Docs", markdown, described))
    /\ UNCHANGED runVars

CallFetchVoxtralTranscript ==
    /\ call.op = "none"
    /\ \E video_url \in YoutubeUrls, download \in Downloads(TmpDir),
          transcription \in {Answer(l) : l \in SegmentLists} \cup {Raises("RuntimeError")} :
          call' = Called("fetch_voxtral_transcript",
                         [video_url |-> video_url, download |-> download,
                          transcription |-> transcription],
                         fetch_voxtral_transcript(video_url, "key", download,
                                                  transcription))
    /\ UNCHANGED runVars

NextVision == CallFetchFrameChunks \/ CallFetchImageChunks \/ CallFetchVoxtralTranscript
SpecVision == InitCalls /\ [][NextVision]_vars

-----------------------------------------------------------------------------
(* What a run has done so far, read from its log. *)

Events(op) == SelectSeq(log, LAMBDA e : e.op = op)
Sources(events) == [i \in 1..Len(events) |-> events[i].src]
StoreOps == {"ensure_collection", "add_chunks", "count"}
Positions(op) == {j \in 1..Len(log) : log[j].op = op}
Failures == {j \in 1..Len(log) : ~log[j].ok}

\* The run got into the guarded block and past ensure_collection.
InLoops == pc \in {"youtube", "kb", "pages", "count"}

\* The answers of the YouTube sources processed so far: they follow the answers of
\* the store connection and of ensure_collection.
YoutubeAnswer(i) == answers[2 + i]
YoutubeChunks(i) ==
    LET yt == manifest.youtube[i]
    IN MapTranscript(fetch_transcript_chunks(yt, NameOf(yt), TargetTokens, apiKey,
                                             Captions(yt), Voxtral(yt)).chunks, runNo)


\* The events between position j of the log and the next crawl (or the end).
NextCrawl(j) ==
    LET later == {k \in Positions("crawl_knowledge_base") : k > j}
    IN IF later = {} THEN Len(log) + 1 ELSE CHOOSE k \in later : \A m \in later : k <= m
PagesSplitAfter(j) ==
    Sources(SelectSeq(SubSeq(log, j + 1, NextCrawl(j) - 1),
                      LAMBDA e : e.op = "split_by_sections"))
UrlsOf(ps) == [i \in 1..Len(ps) |-> ps[i].url]
Connected == \E j \in Positions("connect") : log[j].ok

-----------------------------------------------------------------------------
(* Claims *)

\* C1: re-ingestion is idempotent.  When the entry point is run twice in succession
\* over the same sources with the same content, the collection holds after the
\* second run exactly the objects (by chunk_id, hence the same count) it held after
\* the first: every add_chunks of the second run writes only chunk_ids the first run
\* left, and overwrites those objects.
C1_ReingestionIdempotent ==
    (runNo = 2 /\ pc = "exited") =>
        /\ DOMAIN store = firstRun.ids
        /\ count(store) = Cardinality(firstRun.ids)
        /\ \A j \in Positions("add_chunks") :
              log[j].ok =>
                 /\ log[j].ids \subseteq firstRun.ids
                 /\ \A id \in log[j].ids : store[id].properties.ingested_at = 2

C1_Witness ==
    /\ runNo = 2
    /\ pc = "exited"
    /\ exitStatus = Some(0)
    /\ manifest.youtube = <<UrlWatchA>>
    /\ \E j \in Positions("add_chunks") :
          log[j].ok /\ log[j].src = "youtube:Video A" /\ log[j].n = 2
    /\ count(store) = Cardinality(firstRun.ids)
    /\ count(store) >= 2

\* C2: YouTube failure isolation.  While the loop over the YouTube sources runs and
\* when it has ended, nothing propagates out of it; the sources attempted so far are
\* the manifest's, each once and in order; total_failed is the number of sources
\* whose fetch or upsert raised; add_chunks was attempted for every source whose
\* fetch returned chunks; and the chunks of every source that did not raise are in
\* the collection.
C2_YoutubeFailureIsolation ==
    pc = "youtube" =>
        LET done == ytIdx - 1
            raising == {i \in 1..done : YoutubeAnswer(i) # "ok"}
            fetched == {i \in 1..done : YoutubeAnswer(i) # "fetch_raises"
                                         /\ YoutubeChunks(i) # <<>>}
        IN /\ uncaught = None
           /\ done <= Len(manifest.youtube)
           /\ Sources(Events("fetch_transcript_chunks"))
                 = SubSeq(manifest.youtube, 1, done)
           /\ total_failed = Cardinality(raising)
           /\ Len(Events("add_chunks")) = Cardinality(fetched)
           /\ \A i \in (1..done) \ raising :
                 \A k \in 1..Len(YoutubeChunks(i)) :
                    LET chunk == YoutubeChunks(i)[k]
                    IN /\ chunk.chunk_id \in DOMAIN store
                       /\ store[chunk.chunk_id].properties.source_url = chunk.source_url

C2_Witness ==
    /\ pc = "youtube"
    /\ manifest.youtube = <<UrlShortB, UrlWatchA>>
    /\ ytIdx = 3
    /\ YoutubeAnswer(1) = "fetch_raises"
    /\ YoutubeAnswer(2) = "ok"
    /\ total_failed = 1
    /\ total_added = 2
    /\ count(store) = 2

C6_NonZeroOnlyIfManifestMissing ==
    (pc = "exited" /\ exitStatus # Some(0)) => manifest.file = "missing"

\* C6 (amended): the process ends with status 1 exactly when the manifest file is
\* missing or an exception propagates out of run(), which a manifest that fails
\* validation, the store connection, ensure_collection and the final count cause;
\* otherwise it ends with status 0, however many sources, crawls or pages failed.
FatalAnswers == {"connect_raises", "ensure_raises", "count_raises"}

C6_NonZeroIffFatal ==
    pc = "exited" =>
        /\ exitStatus \in {Some(0), Some(1)}
        /\ exitStatus = Some(1) <=>
              \/ manifest.file \in {"missing", "invalid"}
              \/ \E i \in 1..Len(answers) : answers[i] \in FatalAnswers

C6_Witness ==
    /\ pc = "exited"
    /\ exitStatus = Some(1)
    /\ manifest.file = "valid"
    /\ answers[Len(answers)] = "count_raises"
    /\ total_added > 0

\* C7: scoped store connection.  close() is called at most once; no store operation
\* (ensure_collection, add_chunks, count) follows it; the connection is open exactly
\* from the successful construction to close(); and once the guarded block has been
\* left, on whatever path, a store that was opened has been closed exactly once.
C7_ScopedStoreConnection ==
    /\ Cardinality(Positions("close")) <= 1
    /\ \A j \in Positions("close") :
          \A k \in (j + 1)..Len(log) : log[k].op \notin StoreOps
    /\ isOpen <=> (Connected /\ Positions("close") = {})
    /\ (pc \in {"after_block", "exited"} /\ Connected) =>
          Cardinality(Positions("close")) = 1

C7_Witness ==
    /\ pc = "exited"
    /\ uncaught = Some("EnsureCollectionError")
    /\ Cardinality(Positions("close")) = 1
    /\ ~isOpen

\* What a call of fetch_transcript_chunks did, read from its record.
Attempts(calls, name) == Cardinality({i \in 1..Len(calls) : calls[i] = name})
CaptionsUnavailable(c) ==
    /\ Attempts(c.result.calls, "fetch_transcript") = 1
    /\ c.arg.captions.kind \in {"TranscriptsDisabled", "NoTranscriptFound"}

\* C4: audio-fallback gating.  fetch_voxtral_transcript is called once when the
\* caption fetch failed with TranscriptsDisabled or NoTranscriptFound and the key is
\* non-empty, and is not called otherwise; when the caption fetch fails with IpBlocked
\* the result is empty and it is not called, whatever the key; when the captions are
\* unavailable and the key is empty the result is empty and it is not called.
C4_AudioFallbackGating ==
    call.op = "fetch_transcript_chunks" =>
        LET attempts == Attempts(call.result.calls, "fetch_voxtral_transcript")
        IN /\ attempts = IF CaptionsUnavailable(call) /\ call.arg.mistral_api_key # ""
                         THEN 1 ELSE 0
           /\ call.arg.captions.kind = "IpBlocked" =>
                 (call.result.chunks = <<>> /\ attempts = 0)
           /\ call.arg.mistral_api_key = "" =>
                 /\ attempts = 0
                 /\ CaptionsUnavailable(call) => call.result.chunks = <<>>

C4_Witness ==
    /\ call.op = "fetch_transcript_chunks"
    /\ call.arg.video_url = UrlShortB
    /\ call.arg.captions.kind = "TranscriptsDisabled"
    /\ call.arg.mistral_api_key = "key"
    /\ call.arg.voxtral = Answer(<<Segment(<<"a">>, 0, 2)>>)
    /\ call.result.calls = <<"extract_video_id", "fetch_transcript",
                             "fetch_voxtral_transcript", "chunk_segments">>
    /\ Len(call.result.chunks) = 1

\* C5: fetch_transcript_chunks never raises.  Whatever the video id extraction, the
\* caption fetch and the audio fallback give, it returns a list, and a non-empty one
\* only when the collaborator it called last for segments answered a non-empty
\* segment list.
C5_FetchNeverRaises ==
    call.op = "fetch_transcript_chunks" =>
        /\ call.result.raised = None
        /\ call.result.chunks # <<>> =>
              LET asked == IF Attempts(call.result.calls, "fetch_voxtral_transcript") > 0
                           THEN call.arg.voxtral ELSE call.arg.captions
              IN /\ Attempts(call.result.calls, "fetch_transcript") = 1
                 /\ asked.kind = "segments"
                 /\ asked.segments # <<>>

C5_Witness ==
    /\ call.op = "fetch_transcript_chunks"
    /\ call.arg.video_url = UrlWatchA
    /\ call.arg.captions.kind = "NoTranscriptFound"
    /\ call.arg.mistral_api_key = "key"
    /\ call.arg.voxtral.kind = "RuntimeError"
    /\ call.result.raised = None
    /\ call.result.chunks = <<>>

\* C8: deterministic chunk identity for video passages.  Two chunks converted by
\* from_transcript_chunk, and likewise two converted by from_frame_chunk, get the
\* same chunk_id exactly when they have the same source_url and start_seconds,
\* whatever their text and whenever they are converted.
C8_VideoChunkIdentity ==
    call.op \in {"from_transcript_chunk", "from_frame_chunk"} =>
        (call.result[1].chunk_id = call.result[2].chunk_id
            <=> /\ call.arg[1].source_url = call.arg[2].source_url
                /\ call.arg[1].start_seconds = call.arg[2].start_seconds)

C8_Witness ==
    /\ call.op = "from_transcript_chunk"
    /\ call.arg[1].source_url = call.arg[2].source_url
    /\ call.arg[1].start_seconds = call.arg[2].start_seconds
    /\ call.arg[1].text # call.arg[2].text
    /\ call.result[1].chunk_id = call.result[2].chunk_id
    /\ call.result[1].text # call.result[2].text

\* C9: from_screenshot_chunk.  A WebChunk without image_url makes the conversion
\* raise ValueError and gives no SupportChunk; one with image_url is converted, and
\* two converted chunks get the same chunk_id exactly when they have the same
\* image_url, whatever their text and page.
C9_ScreenshotChunkIdentity ==
    call.op = "from_screenshot_chunk" =>
        /\ \A i \in 1..2 :
              IF call.arg[i].image_url = None
              THEN call.result[i].raised = Some("ValueError") /\ call.result[i].value = None
              ELSE call.result[i].raised = None /\ call.result[i].value # None
        /\ (call.arg[1].image_url # None /\ call.arg[2].image_url # None) =>
              (call.result[1].value[1].chunk_id = call.result[2].value[1].chunk_id
                  <=> call.arg[1].image_url = call.arg[2].image_url)

C9_Witness ==
    /\ call.op = "from_screenshot_chunk"
    /\ call.arg[1].image_url = None
    /\ call.result[1].raised = Some("ValueError")
    /\ call.arg[2].image_url # None
    /\ call.result[2].value # None

\* C10 (as claimed): the WebChunks split_by_sections returns carry chunk_index 0, 1,
\* 2, ... in the order returned.
C10_ChunkIndexIncreasingFromZero ==
    call.op = "split_by_sections" =>
        \A i \in 1..Len(call.result) : call.result[i].chunk_index = Some(i - 1)

\* C11: empty-results short-circuit.  generate_cited_answer with no results returns
\* the fixed fallback answer with no citations and does not invoke the chat model;
\* with results it invokes the chat model once; and a chat turn whose retrieval
\* returns no passage replies with the fallback answer without invoking it.
C11_EmptyResultsShortCircuit ==
    /\ call.op = "generate_cited_answer" =>
          IF call.arg.results = <<>>
          THEN /\ call.result.raised = None
               /\ call.result.value = Some(CitedAnswer(FallbackAnswer, <<>>))
               /\ Attempts(call.result.calls, "llm.invoke") = 0
          ELSE Attempts(call.result.calls, "llm.invoke") = 1
    /\ (/\ call.op = "respond"
        /\ Attempts(call.result.calls, "retrieve") = 1
        /\ call.arg.embedded.raised = None
        /\ (call.arg.found = <<>> \/ call.arg.embedded.vectors = <<>>)) =>
          /\ Attempts(call.result.calls, "llm.invoke") = 0
          /\ call.result.reply = Some(FallbackAnswer)

C11_Witness ==
    /\ call.op = "respond"
    /\ call.arg.message = <<"q">>
    /\ call.arg.found = <<>>
    /\ call.arg.llm = LlmRaises
    /\ call.result.calls = <<"_make_llm", "retrieve", "store.search", "_embed",
                             "near_vector", "generate_cited_answer",
                             "_format_citations_block">>
    /\ call.result.reply = Some(FallbackAnswer)

\* C12 (as claimed): in the text _replace_refs_with_links returns, every marker [n]
\* of the raw answer with 1 <= n <= number of results stands replaced by the rendered
\* link of result n, and everything else of the raw answer, the markers beyond the
\* results included, stands as it was.
C12_MarkersReplacedByTheirLinks ==
    call.op = "_replace_refs_with_links" =>
        LET results == call.arg.results
            pieces == call.arg.pieces
            Rendered(piece) ==
                LET ns == {n \in 1..Len(results) : piece = Marker(n)}
                    r == results[CHOOSE n \in ns : TRUE]
                IN IF ns = {} THEN piece
                   ELSE Link(citation_label(r), citation_url(r), r.relevance_score)
        IN call.result = Concat([i \in 1..Len(pieces) |-> Rendered(pieces[i])])

\* C13: a message that is empty after trimming gets the reply "Please enter a
\* question." and causes no call at all: no chat model is constructed, nothing is
\* retrieved (no store search, no embedding) and nothing is generated.
C13_BlankMessageTouchesNothing ==
    (call.op = "respond" /\ Strip(call.arg.message) = <<>>) =>
        /\ call.result.raised = None
        /\ call.result.reply = Some(EnterQuestion)
        /\ call.result.calls = <<>>

C13_Witness ==
    /\ call.op = "respond"
    /\ call.arg.message = <<"\n", " ">>
    /\ call.arg.found # <<>>
    /\ call.arg.embedded.raised # None
    /\ call.result.reply = Some(EnterQuestion)
    /\ call.result.calls = <<>>

\* The first max_words words of a text, as the words a truncated text must have.
FirstWords(text, max_words) ==
    SubSeq(Split(text), 1, Min(max_words, Len(Split(text))))

ContextLengthErrors == {ErrContext, ErrContextUpper}

\* Call k of a backend is the retry of call k - 1.
RECURSIVE IsRetry(_, _)
IsRetry(backend, k) ==
    /\ k > 1
    /\ backend[k - 1] \in ContextLengthErrors
    /\ ~IsRetry(backend, k - 1)

\* C14: when the backend answers a batch with an error whose message tells of a
\* context length, the batch is sent once more, every text of it cut to its first
\* _RETRY_MAX_WORDS words, and an error of that second call ends embed_texts with no
\* further call; any other error ends embed_texts at once, with that error and
\* with no further call.
C14_ContextLengthRetriedOnce ==
    call.op = "embed_texts" =>
        LET backend == call.arg.backend
            calls == call.result.calls
        IN \A k \in 1..Len(calls) :
              LET answer == AnswerAt(backend, k)
              IN /\ (answer \in ContextLengthErrors /\ ~IsRetry(backend, k)) =>
                       /\ k < Len(calls)
                       /\ Len(calls[k + 1]) = Len(calls[k])
                       /\ \A j \in 1..Len(calls[k]) :
                             Split(calls[k + 1][j]) = FirstWords(calls[k][j], RetryMaxWords)
                 /\ (answer.kind = "error"
                        /\ (answer \notin ContextLengthErrors \/ IsRetry(backend, k))) =>
                       /\ k = Len(calls)
                       /\ call.result.raised = Some(answer)

C14_Witness ==
    /\ call.op = "embed_texts"
    /\ Len(call.result.calls) = 4
    /\ call.arg.backend[2] = ErrContextUpper
    /\ call.arg.backend[3] = Vectors
    /\ call.result.calls[3] # call.result.calls[2]
    /\ \E j \in 1..Len(call.result.calls[2]) :
          /\ Len(Split(call.result.calls[2][j])) > RetryMaxWords
          /\ Len(Split(call.result.calls[3][j])) = RetryMaxWords
    /\ call.result.raised = None
    /\ Len(call.result.vectors) = Len(call.arg.texts)

\* C15: embed_texts of no text returns no vector and never calls the backend; of
\* n > 0 texts, with a backend that never fails, it calls the backend exactly
\* ceil(n / _BATCH_SIZE) times, each time with at most _BATCH_SIZE texts, the texts
\* of the calls being the input texts in input order (each cut to its first
\* _MAX_WORDS words), and returns n vectors, the j-th being the vector of text j.
C15_BatchesInInputOrder ==
    call.op = "embed_texts" =>
        LET texts == call.arg.texts
            backend == call.arg.backend
            calls == call.result.calls
            sent == Concat(calls)
            n == Len(texts)
        IN /\ texts = <<>> =>
                 /\ call.result.raised = None
                 /\ call.result.vectors = <<>>
                 /\ calls = <<>>
           /\ (n > 0 /\ \A k \in 1..Len(backend) : backend[k] = Vectors) =>
                 /\ call.result.raised = None
                 /\ Len(calls) = (n + BatchSize - 1) \div BatchSize
                 /\ \A k \in 1..Len(calls) : Len(calls[k]) \in 1..BatchSize
                 /\ Len(sent) = n
                 /\ \A j \in 1..n : Split(sent[j]) = FirstWords(texts[j], MaxWords)
                 /\ Len(call.result.vectors) = n
                 /\ \A j \in 1..n : call.result.vectors[j] = <<"vector", sent[j]>>

C15_Witness ==
    /\ call.op = "embed_texts"
    /\ Len(call.arg.texts) = 2 * BatchSize + 1
    /\ \A k \in 1..Len(call.arg.backend) : call.arg.backend[k] = Vectors
    /\ Len(call.result.calls) = 3
    /\ Len(call.result.calls[3]) = 1
    /\ call.arg.texts[1] # call.arg.texts[2]
    /\ Len(call.result.vectors) = Len(call.arg.texts)

\* The indices of the segments of non-blank text, in order.
RECURSIVE KeptFrom(_, _)
KeptFrom(segments, i) ==
    IF i > Len(segments) THEN <<>>
    ELSE (IF Strip(segments[i].text) = <<>> THEN <<>> ELSE <<i>>) \o KeptFrom(segments, i + 1)

RECURSIVE SumOver(_, _, _)
SumOver(f, a, b) == IF a > b THEN 0 ELSE f[a] + SumOver(f, a + 1, b)

\* The groups a set of cuts makes of positions 1..m: a cut k parts k from k + 1.
GroupStart(cuts, p) == IF \E k \in cuts : k < p THEN 1 + CHOOSE k \in cuts : k < p /\ \A l \in cuts : l < p => l <= k ELSE 1
GroupEnd(cuts, m, p) == IF \E k \in cuts : k >= p THEN CHOOSE k \in cuts : k >= p /\ \A l \in cuts : l >= p => k <= l ELSE m
NthStart(cuts, j) == CHOOSE s \in {1} \cup {k + 1 : k \in cuts} : Cardinality({k \in cuts : k < s}) = j - 1

\* The chunks are the groups of the non-blank segments that the cut rule makes with
\* the estimates est (est[p] for the p-th non-blank segment): a cut falls before a
\* segment exactly when the estimate accumulated since the last cut plus the
\* segment's own exceeds target_tokens; every group is one segment or has an
\* accumulated estimate of at most target_tokens; the text of a chunk is the
\* trimmed texts of its group, whole, joined by single spaces.
CutByRule(est, segments, target_tokens, chunks) ==
    LET kept == KeptFrom(segments, 1)
        m == Len(kept)
        GroupText(a, b) == Join([p \in 1..(b - a + 1) |-> Strip(segments[kept[a + p - 1]].text)])
    IN \E cuts \in SUBSET (1..(m - 1)) :
          /\ \A k \in 1..(m - 1) :
                k \in cuts <=> SumOver(est, GroupStart(cuts, k), k) + est[k + 1] > target_tokens
          /\ Len(chunks) = IF m = 0 THEN 0 ELSE Cardinality(cuts) + 1
          /\ \A j \in 1..Len(chunks) :
                LET a == NthStart(cuts, j)
                    b == GroupEnd(cuts, m, a)
                IN /\ chunks[j].text = GroupText(a, b)
                   /\ a = b \/ SumOver(est, a, b) <= target_tokens

EstimatesOf(Estimate(_), segments) ==
    LET kept == KeptFrom(segments, 1)
    IN [p \in 1..Len(kept) |-> Estimate(Strip(segments[kept[p]].text))]

RoundedEstimate(text) == Round(Len(Split(text)) * 13, 10)
TruncatedEstimate(text) == (Len(Split(text)) * 13) \div 10

C17_ContentPreserved ==
    call.op = "chunk_segments" =>
        LET segments == call.arg.segments
            chunks == call.result
            kept == KeptFrom(segments, 1)
            rounded == EstimatesOf(RoundedEstimate, segments)
            truncated == EstimatesOf(TruncatedEstimate, segments)
        IN /\ Join([j \in 1..Len(chunks) |-> chunks[j].text])
                 = Join([p \in 1..Len(kept) |-> Strip(segments[kept[p]].text)])
           /\ \A j \in 1..Len(chunks) : Strip(chunks[j].text) # <<>>
           /\ kept = <<>> => chunks = <<>>
           /\ (kept # <<>> /\ (SumOver(rounded, 1, Len(kept)) < call.arg.target_tokens
                               \/ SumOver(truncated, 1, Len(kept)) < call.arg.target_tokens))
                 => Len(chunks) = 1

\* a blank segment between others, a text with whitespace around it, two chunks
C17_Witness ==
    /\ call.op = "chunk_segments"
    /\ Len(call.arg.segments) = 4
    /\ call.arg.segments[2].text = <<" ">>
    /\ call.arg.segments[3].text = <<" ", "a", " ", "b", "\n">>
    /\ Len(call.result) = 2
    /\ call.result[2].text = <<"a", " ", "b", " ", "a">>

\* The cuts the rule makes among m non-blank segments of estimates est.
CutsOf(est, m, target_tokens) ==
    CHOOSE cuts \in SUBSET (1..(m - 1)) :
        \A k \in 1..(m - 1) :
            k \in cuts <=> SumOver(est, GroupStart(cuts, k), k) + est[k + 1] > target_tokens

\* C18: of the chunks of chunk_segments, in whole seconds (a TranscriptChunk holds
\* int(...) of the times): every chunk starts at the start of the first segment
\* whose text it holds, which for a chunk after a cut is the segment that caused
\* the cut; a chunk emitted on a cut ends at start + duration of the segment just
\* before the one that caused the cut; the last chunk ends at start + duration of
\* the last segment of the list.
C18_ChunkTimeBounds ==
    call.op = "chunk_segments" =>
        LET segments == call.arg.segments
            chunks == call.result
            kept == KeptFrom(segments, 1)
            m == Len(kept)
            cuts == CutsOf(EstimatesOf(TruncatedEstimate, segments), m, call.arg.target_tokens)
            last == segments[Len(segments)]
        IN \A j \in 1..Len(chunks) :
              LET a == NthStart(cuts, j)
                  b == GroupEnd(cuts, m, a)
                  first == segments[kept[a]]
                  previous == segments[kept[b + 1] - 1]
              IN /\ chunks[j].start_seconds = IntOfTicks(first.start)
                 /\ j < Len(chunks) =>
                       chunks[j].end_seconds = IntOfTicks(previous.start + previous.duration)
                 /\ j = Len(chunks) =>
                       chunks[j].end_seconds = IntOfTicks(last.start + last.duration)

\* two chunks, a blank segment just before the one that caused the cut, and times
\* that are no whole seconds
C18_Witness ==
    /\ call.op = "chunk_segments"
    /\ Len(call.arg.segments) = 4
    /\ Strip(call.arg.segments[1].text) = <<>>
    /\ Strip(call.arg.segments[3].text) = <<>>
    /\ (call.arg.segments[3].start + call.arg.segments[3].duration) % TicksPerSecond # 0
    /\ Len(call.result) = 2
    /\ call.result[1].start_seconds = IntOfTicks(call.arg.segments[2].start)
    /\ call.result[1].end_seconds < call.result[2].start_seconds
    /\ call.result[2].end_seconds > call.result[2].start_seconds

\* The chunks from index `from` on are, part by part from part i on, the words of
\* the part's text in chunks that all carry the part's heading.
RECURSIVE InBlocks(_, _, _, _)
InBlocks(chunks, parts, i, from) ==
    IF i > Len(parts) THEN from = Len(chunks) + 1
    ELSE \E to \in (from - 1)..Len(chunks) :
            /\ \A j \in from..to : chunks[j].section_heading = parts[i].heading
            /\ Join([j \in 1..(to - from + 1) |-> chunks[from + j - 1].text])
                  = Join(Split(parts[i].text))
            /\ InBlocks(chunks, parts, i + 1, to + 1)

\* C19: the chunks of split_by_sections are, in this order: chunks without a
\* heading holding the words of the content before the first header, then, header
\* by header in the order of the content, chunks holding the words of the header's
\* body, each tagged with the header's trimmed text; blank content before the
\* first header and a header of blank body give no chunk; with no header, all
\* chunks are without a heading and hold the words of the content.
C19_SectionsInOrder ==
    call.op = "split_by_sections" =>
        LET content == call.arg
            chunks == call.result
            matches == SectionMatches(content, 1)
            k == Len(matches)
            pre == IF k = 0 THEN content ELSE SubSeq(content, 1, matches[1].start - 1)
            Body(i) == SubSeq(content, matches[i].end + 1,
                              IF i < k THEN matches[i + 1].start - 1 ELSE Len(content))
            parts == [i \in 1..(k + 1) |->
                        IF i = 1 THEN [heading |-> None, text |-> pre]
                        ELSE [heading |-> Some(Strip(matches[i - 1].heading)),
                              text |-> Body(i - 1)]]
        IN /\ \A j \in 1..Len(chunks) : Strip(chunks[j].text) # <<>>
           /\ InBlocks(chunks, parts, 1, 1)

\* text before the first header, a header with a body of two chunks, and a last
\* header, of spaces around its text, with no body
C19_Witness ==
    /\ call.op = "split_by_sections"
    /\ call.arg = JoinedLines(<<<<"a">>, <<"#", " ", "h">>, <<"b", " ", "c">>,
                                <<"#", "#", " ", " ", "g", " ">>>>)
    /\ Len(call.result) = 3
    /\ call.result[1].section_heading = None
    /\ call.result[2].section_heading = Some(<<"h">>)
    /\ call.result[3].section_heading = Some(<<"h">>)
    /\ call.result[3].text = <<"c">>

\* The positions of a sequence of answers of describe_frame or describe_image that
\* are descriptions, in order.
RECURSIVE DescribedFrom(_, _)
DescribedFrom(replies, i) ==
    IF i > Len(replies) THEN <<>>
    ELSE (IF replies[i].raised = None THEN <<i>> ELSE <<>>) \o DescribedFrom(replies, i + 1)

\* C20: in fetch_frame_chunks (the video downloaded and its frames extracted) and
\* in fetch_image_chunks, describing is attempted once for every frame, or for
\* every distinct absolute image URL of the markdown, in input order, whatever
\* failed before; the call raises nothing; the chunks are, in input order, one per
\* unit whose description succeeded, holding that unit's description and its own
\* timestamp (start_seconds = the frame's nominal timestamp, end_seconds one
\* interval later) or its own image_url.
C20_PerUnitIsolation ==
    /\ (call.op = "fetch_frame_chunks" /\ call.arg.download = "ok"
                                       /\ call.arg.keyframes.raised = None) =>
          LET n == call.arg.keyframes.n
              interval == call.arg.interval_seconds
              IsDescribe(c) == c[1] = "describe_frame"
              attempts == SelectSeq(call.result.calls, IsDescribe)
              good == DescribedFrom(call.arg.described, 1)
              chunks == call.result.chunks
          IN /\ call.result.raised = None
             /\ attempts = [i \in 1..n |-> <<"describe_frame", <<"frame", i>>>>]
             /\ Len(chunks) = Len(good)
             /\ \A j \in 1..Len(chunks) :
                   /\ chunks[j].text = call.arg.described[good[j]].text
                   /\ chunks[j].start_seconds = (good[j] - 1) * interval
                   /\ chunks[j].end_seconds = good[j] * interval
                   /\ chunks[j].source_url = call.arg.video_url
    /\ call.op = "fetch_image_chunks" =>
          LET markdown == call.arg.markdown
              At(u) == {i \in 1..Len(markdown) : markdown[i] = Image(u)}
              First(u) == CHOOSE i \in At(u) : \A k \in At(u) : i <= k
              attempts == call.result.calls
              units == [i \in 1..Len(attempts) |-> attempts[i][2]]
              replies == [i \in 1..Len(units) |-> call.arg.described[units[i]]]
              good == DescribedFrom(replies, 1)
              chunks == call.result.chunks
          IN /\ call.result.raised = None
             /\ \A i \in 1..Len(attempts) : attempts[i][1] = "describe_image"
             /\ {units[i] : i \in 1..Len(units)} = {u \in ImageUrls : At(u) # {}}
             /\ \A a, b \in 1..Len(units) : a < b => First(units[a]) < First(units[b])
             /\ Len(chunks) = Len(good)
             /\ \A j \in 1..Len(chunks) :
                   /\ chunks[j].text = replies[good[j]].text
                   /\ chunks[j].image_url = Some(units[good[j]])
                   /\ chunks[j].source_url = call.arg.page_url

\* three frames, the second of which cannot be described
C20_Witness ==
    /\ call.op = "fetch_frame_chunks"
    /\ call.arg.interval_seconds = 30
    /\ call.arg.keyframes.n = 3
    /\ call.arg.described[1].raised = None
    /\ call.arg.described[2].raised # None
    /\ call.arg.described[3] = Described(<<"f", "o", "r", "m">>)
    /\ Len(call.result.chunks) = 2
    /\ call.result.chunks[2].start_seconds = 60
    /\ call.result.chunks[2].text = <<"f", "o", "r", "m">>

\* C21: when fetch_voxtral_transcript has returned or raised (the download failed,
\* the transcription failed, or both went well), and when fetch_frame_chunks has
\* returned or raised (the download or the frame extraction failed), the temporary
\* directory the call made and everything in it are gone, and the other files are
\* as they were.
C21_TemporaryDirectoryScoped ==
    call.op \in {"fetch_voxtral_transcript", "fetch_frame_chunks"} =>
        /\ <<TmpDir>> \in call.result.made
        /\ \A path \in call.result.left : path[1] # TmpDir
        /\ call.result.left = Disk

\* the audio was downloaded into the directory and the transcription raised
C21_Witness ==
    /\ call.op = "fetch_voxtral_transcript"
    /\ call.arg.download.raised = None
    /\ call.arg.transcription.kind = "RuntimeError"
    /\ call.result.raised = Some("RuntimeError")
    /\ <<TmpDir, "aaaaaaaaaaa.m4a">> \in call.result.made
    /\ call.result.left = Disk

\* The history is an even number of messages, user and assistant in turn.
HistoryAlternates ==
    /\ Len(chatbot) % 2 = 0
    /\ \A i \in 1..Len(chatbot) :
          chatbot[i].role = IF i % 2 = 1 THEN "user" ELSE "assistant"

\* A step that leaves a history other than the empty one and other than the one
\* before it appends to it the text of the box as a user message and one assistant
\* message, and empties the box.
HistoryGrowsByOneTurn ==
    (chatbot' # chatbot /\ chatbot' # <<>>) =>
        /\ Len(chatbot') = Len(chatbot) + 2
        /\ SubSeq(chatbot', 1, Len(chatbot)) = chatbot
        /\ chatbot'[Len(chatbot) + 1] = Message("user", msg)
        /\ chatbot'[Len(chatbot) + 2].role = "assistant"
        /\ msg' = <<>>

\* C22: after any sequence of submissions and clears the chat history is an even
\* number of role-tagged messages, user and assistant in turn; a completed
\* submission appends to the history before it the submitted text as a user
\* message and then the reply as an assistant message, changes no earlier message,
\* and empties the question box.
C22_HistoryInvariant == []HistoryAlternates /\ [][HistoryGrowsByOneTurn]_vars

\* two turns, the first of a question that was answered from a passage, the second
\* of a blank message
C22_Witness ==
    /\ Len(chatbot) = 4
    /\ chatbot[1] = Message("user", <<" ", "q", "\n">>)
    /\ chatbot[2].content # EnterQuestion
    /\ chatbot[3] = Message("user", <<" ">>)
    /\ chatbot[4] = Message("assistant", EnterQuestion)
    /\ msg = <<>>

\* The last of the chunks written under an id.
WrittenAs(chunks, id) ==
    chunks[CHOOSE i \in 1..Len(chunks) :
               /\ chunks[i].chunk_id = id
               /\ \A j \in 1..Len(chunks) : chunks[j].chunk_id = id => j <= i]

\* C23: a SupportChunk written by add_chunks and then returned by retrieve gives a
\* SearchResult of the same text, source_type, source_url and source_name; a
\* section_heading that is absent is stored as the empty string and comes back
\* absent (as does an empty one), a non-empty one comes back as it was;
\* timestamp_seconds comes back as it was, 0 staying 0 and absent staying absent.
C23_StoreRetrieveRoundTrip ==
    call.op = "store_then_retrieve" =>
        \A i \in 1..Len(call.result.results) :
            LET id == call.arg.ids[i]
                chunk == WrittenAs(call.arg.chunks, id)
                result == call.result.results[i]
                absent == chunk.section_heading = None \/ chunk.section_heading = Some(<<>>)
            IN /\ result.text = chunk.text
               /\ result.source_type = chunk.source_type
               /\ result.source_url = chunk.source_url
               /\ result.source_name = chunk.source_name
               /\ result.timestamp_seconds = chunk.timestamp_seconds
               /\ absent => /\ call.result.store[id].properties.section_heading = <<>>
                            /\ result.section_heading = None
               /\ ~absent => result.section_heading = chunk.section_heading

\* a transcript passage at 0 s and a page passage with a heading, both found
C23_Witness ==
    /\ call.op = "store_then_retrieve"
    /\ Len(call.result.results) = 2
    /\ call.result.results[1].timestamp_seconds = Some(0)
    /\ call.result.results[1].section_heading = None
    /\ call.result.results[2].timestamp_seconds = None
    /\ call.result.results[2].section_heading = Some(<<"I", "n">>)

\* The j-th event of the log is the k-th of its kind.
Ordinal(j) == Cardinality({k \in 1..j : log[k].op = log[j].op})

\* The pause the run makes before the sources of a list: 2 s for YouTube sources,
\* 5 s for knowledge bases.
PauseBefore(op) == IF op = "fetch_transcript_chunks" THEN 2 ELSE 5
SourceOps == {"fetch_transcript_chunks", "crawl_knowledge_base"}

\* C24: order of a run.  ensure_collection is called exactly once and before any
\* add_chunks; the YouTube sources are processed in manifest order, all of them
\* before any knowledge base, and the knowledge bases in manifest order; the run
\* sleeps (2 s between YouTube sources, 5 s between knowledge bases) before every
\* source after the first of its list and never before the first, whether or not
\* the preceding source or its crawl failed; the store count is read once, after
\* every source has been processed.
C24_RunOrder ==
    /\ Cardinality(Positions("ensure_collection")) <= 1
    /\ InLoops => Cardinality(Positions("ensure_collection")) = 1
    /\ \A j \in Positions("add_chunks") : \E k \in Positions("ensure_collection") : k < j
    /\ \A j \in Positions("fetch_transcript_chunks") :
          \A k \in Positions("crawl_knowledge_base") \cup Positions("split_by_sections") : j < k
    /\ Sources(Events("fetch_transcript_chunks")) =
          SubSeq(manifest.youtube, 1, Len(Events("fetch_transcript_chunks")))
    /\ Sources(Events("crawl_knowledge_base")) =
          SubSeq(manifest.kb_sources, 1, Len(Events("crawl_knowledge_base")))
    /\ \A j \in 1..Len(log) :
          /\ log[j].op \in SourceOps =>
                IF Ordinal(j) = 1
                THEN j > 1 => log[j - 1].op # "sleep"
                ELSE /\ log[j - 1].op = "sleep"
                     /\ log[j - 1].n = PauseBefore(log[j].op)
          /\ log[j].op = "sleep" => j < Len(log) /\ log[j + 1].op \in SourceOps
    /\ Cardinality(Positions("count")) <= 1
    /\ \A j \in Positions("count") :
          /\ j = Len(log) \/ log[j + 1].op = "close"
          /\ Len(Events("fetch_transcript_chunks")) = Len(manifest.youtube)
          /\ Len(Events("crawl_knowledge_base")) = Len(manifest.kb_sources)
          /\ pages = <<>>

\* a YouTube source, then two knowledge bases of which the first could not be
\* crawled: the run slept 5 s before the second and then read the count
C24_Witness ==
    /\ Len(manifest.youtube) = 1
    /\ Len(manifest.kb_sources) = 2
    /\ Cardinality(Positions("count")) = 1
    /\ \E j \in Positions("crawl_knowledge_base") :
          /\ ~log[j].ok
          /\ log[j + 1].op = "sleep"
          /\ log[j + 1].n = 5
          /\ log[j + 2].op = "crawl_knowledge_base"
    /\ Positions("add_chunks") # {}

\* No source is listed twice in the manifest.
SourcesDistinct ==
    /\ \A i, j \in 1..Len(manifest.youtube) : manifest.youtube[i] = manifest.youtube[j] => i = j
    /\ \A i, j \in 1..Len(manifest.kb_sources) :
          manifest.kb_sources[i] = manifest.kb_sources[j] => i = j

\* C25: within one ingestion run no two passages share a chunk_id.  After a run
\* into an initially empty store in which no unit failed (over a manifest that
\* lists no source twice), the count read from the store equals total_added:
\* every passage counted as added is an object of its own.
C25_CountEqualsTotalAdded ==
    (runNo = 1 /\ SourcesDistinct /\ total_failed = 0) =>
        \A j \in Positions("count") : log[j].ok => log[j].n = total_added

\* C26: for every segment list with strictly increasing start times the chunks of
\* chunk_segments have strictly increasing start_seconds, so no two chunks of one
\* video get the same chunk_id from from_transcript_chunk.
C26_ChunkStartsStrictlyIncrease ==
    (/\ call.op = "chunk_segments"
     /\ \A i \in 1..(Len(call.arg.segments) - 1) :
           call.arg.segments[i].start < call.arg.segments[i + 1].start) =>
        \A i, j \in 1..Len(call.result) :
            i < j =>
                /\ call.result[i].start_seconds < call.result[j].start_seconds
                /\ from_transcript_chunk(call.result[i], 1).chunk_id
                       # from_transcript_chunk(call.result[j], 1).chunk_id

\* C27: add_chunks is all-or-nothing with respect to embedding.  When embedding
\* raises, in whatever batch and also after a failed retry, add_chunks raises that
\* error and has written no object: the store holds what it held, its count
\* included.  Every call of the embedding backend precedes the first object written.
C27_AddChunksAllOrNothing ==
    call.op = "add_chunks" =>
        LET r == call.result
            embeds == {i \in 1..Len(r.events) : r.events[i].op = "embed_documents"}
            writes == {i \in 1..Len(r.events) : r.events[i].op = "add_object"}
            whole == embed_texts(TextsOf(call.arg.chunks), call.arg.backend)
        IN /\ (call.arg.chunks # <<>> /\ whole.raised # None) =>
                 /\ r.raised = whole.raised
                 /\ r.store = call.arg.st
                 /\ count(r.store) = count(call.arg.st)
                 /\ r.added = 0
                 /\ writes = {}
           /\ \A i \in embeds, j \in writes : i < j
           /\ r.raised = None => Cardinality(writes) = Len(call.arg.chunks)

\* three chunks added to a store that holds one of them: the first batch is
\* embedded, the second is retried and the retry fails
C27_Witness ==
    /\ call.op = "add_chunks"
    /\ Len(call.arg.chunks) = 3
    /\ call.arg.st # EmptyStore
    /\ call.arg.chunks[1].chunk_id \in DOMAIN call.arg.st
    /\ call.arg.backend = <<Vectors, ErrContext, ErrNetwork>>
    /\ Len(call.result.events) = 3
    /\ call.result.raised = Some(ErrNetwork)
    /\ call.result.store = call.arg.st

\* The link that stands for result i.
LinkOf(results, i) ==
    Link(citation_label(results[i]), citation_url(results[i]), results[i].relevance_score)

\* Every marker [i], 1 <= i <= number of results, of a text replaced by link i in
\* one pass from left to right: what is put in is not looked at again.
RECURSIVE ReplacedAtOnce(_, _)
ReplacedAtOnce(text, results) ==
    IF text = <<>> THEN <<>>
    ELSE LET here == {i \in 1..Len(results) :
                         /\ Len(Marker(i)) <= Len(text)
                         /\ SubSeq(text, 1, Len(Marker(i))) = Marker(i)}
         IN IF here = {}
            THEN <<Head(text)>> \o ReplacedAtOnce(Tail(text), results)
            ELSE LET i == CHOOSE i \in here : TRUE
                 IN LinkOf(results, i)
                        \o ReplacedAtOnce(SubSeq(text, Len(Marker(i)) + 1, Len(text)), results)

\* C28: the text _replace_refs_with_links returns is the text with each marker [i]
\* replaced by link i simultaneously: the text of a link put in is never rewritten
\* by the marker of another result, whatever the labels and URLs of the results
\* hold, a bracketed number included.
C28_SimultaneousReplacement ==
    call.op = "_replace_refs_with_links" =>
        call.result = ReplacedAtOnce(call.arg.text, call.arg.results)

\* The call with which embed_texts sends batch b first, every batch before it
\* having got through: a batch answered with a context-length error takes two calls.
RECURSIVE FirstCallOf(_, _)
FirstCallOf(backend, b) ==
    IF b = 1 THEN 1
    ELSE FirstCallOf(backend, b - 1)
            + (IF AnswerAt(backend, FirstCallOf(backend, b - 1)) \in ContextLengthErrors
               THEN 2 ELSE 1)
Retried(backend, b) == AnswerAt(backend, FirstCallOf(backend, b)) \in ContextLengthErrors
GotThrough(backend, b) ==
    AnswerAt(backend, FirstCallOf(backend, b) + (IF Retried(backend, b) THEN 1 ELSE 0)) = Vectors
BatchNo(j) == ((j - 1) \div BatchSize) + 1

\* C29: the retry of embed_texts is local to the failing batch and bounded.  Every
\* batch that is reached is first sent with its texts cut to _MAX_WORDS words, the
\* batches after a retried one too; a batch takes at most two calls of the backend;
\* when all batches get through, vector j is that of text j as its batch was last
\* sent, so the vectors of the batches before and after a retried batch are those
\* of the normally cut texts; when the retry call fails, with whatever error,
\* embed_texts raises that error and returns no vector.
C29_RetryLocalAndBounded ==
    (call.op = "embed_texts" /\ call.arg.texts # <<>>) =>
        LET texts == call.arg.texts
            backend == call.arg.backend
            calls == call.result.calls
            n == Len(texts)
            batches == 1..BatchNo(n)
            safe == [j \in 1..n |-> _truncate(texts[j], MaxWords)]
            reached == {b \in batches : \A a \in 1..(b - 1) : GotThrough(backend, a)}
            NormalBatch(b) == SubSeq(safe, (b - 1) * BatchSize + 1, Min(n, b * BatchSize))
            CallsFor(b) == IF b \notin reached THEN 0 ELSE IF Retried(backend, b) THEN 2 ELSE 1
            last == CHOOSE b \in reached : \A a \in reached : a <= b
        IN /\ \A b \in reached :
                 /\ FirstCallOf(backend, b) <= Len(calls)
                 /\ calls[FirstCallOf(backend, b)] = NormalBatch(b)
           /\ Len(calls) = FirstCallOf(backend, last) + CallsFor(last) - 1
           /\ Len(calls) <= 2 * BatchNo(n)
           /\ (\A b \in batches : GotThrough(backend, b)) =>
                 /\ call.result.raised = None
                 /\ Len(call.result.vectors) = n
                 /\ \A j \in 1..n :
                       call.result.vectors[j] =
                           <<"vector", IF Retried(backend, BatchNo(j))
                                       THEN _truncate(safe[j], RetryMaxWords)
                                       ELSE safe[j]>>
           /\ \A b \in reached :
                 (Retried(backend, b) /\ ~GotThrough(backend, b)) =>
                     /\ call.result.raised = Some(AnswerAt(backend, FirstCallOf(backend, b) + 1))
                     /\ call.result.vectors = <<>>
                     /\ Len(calls) = FirstCallOf(backend, b) + 1

\* three batches of long texts, the second retried: the first and the third are
\* sent and embedded with the normal cut
C29_Witness ==
    /\ call.op = "embed_texts"
    /\ Len(call.arg.texts) = 2 * BatchSize + 1
    /\ \A j \in 1..Len(call.arg.texts) : call.arg.texts[j] = WordsText(MaxWords + 1)
    /\ call.arg.backend = <<Vectors, ErrContext, Vectors, Vectors>>
    /\ call.result.raised = None
    /\ Len(call.result.calls) = 4
    /\ call.result.vectors[1] = <<"vector", WordsText(MaxWords)>>
    /\ call.result.vectors[BatchSize + 1] = <<"vector", WordsText(RetryMaxWords)>>
    /\ call.result.vectors[2 * BatchSize + 1] = <<"vector", WordsText(MaxWords)>>

\* What the add_chunks calls among the first k events returned, those that raised
\* left out.
RECURSIVE SumAdded(_)
SumAdded(k) ==
    IF k = 0 THEN 0
    ELSE SumAdded(k - 1) + (IF log[k].op = "add_chunks" /\ log[k].ok THEN log[k].n ELSE 0)

ProducingOps == {"fetch_transcript_chunks", "split_by_sections"}

\* total_added is the sum of what the add_chunks calls that did not raise returned;
\* a fetch or split that returned no chunks is followed by no add_chunks and is no
\* failure; and when the loops have ended every source and every page of a
\* crawled knowledge base has been processed.
NoChunksSkipped ==
    /\ total_added = SumAdded(Len(log))
    /\ \A j \in 1..Len(log) :
          (log[j].op \in ProducingOps /\ log[j].ok /\ log[j].n = 0) =>
              (j < Len(log) => log[j + 1].op # "add_chunks")
    /\ InLoops => total_failed = Cardinality(Failures)
    /\ pc = "count" =>
          /\ Len(Events("fetch_transcript_chunks")) = Len(manifest.youtube)
          /\ \A j \in Positions("crawl_knowledge_base") :
                log[j].ok => PagesSplitAfter(j) = UrlsOf(Crawl(log[j].src))

\* A step in which a source or page gave no chunks leaves the counters and the
\* store as they were.
NoChunksStep ==
    (/\ Len(log') > Len(log)
     /\ log'[Len(log')].op \in ProducingOps
     /\ log'[Len(log')].ok
     /\ log'[Len(log')].n = 0) =>
        /\ total_added' = total_added
        /\ total_failed' = total_failed
        /\ store' = store

\* C30: a source or page that produces no chunks without raising (a URL without a
\* video id, captions unavailable and no key, a blank page, a page of headings
\* only) changes neither total_added nor total_failed, add_chunks is not called
\* for it, and the sources and pages after it are still processed; total_added is
\* always the sum of the values returned by the add_chunks calls that did not raise.
C30_NoChunksChangesNothing == []NoChunksSkipped /\ [][NoChunksStep]_vars

\* a video without captions and without a key, then the notes, whose pages give no
\* chunks, then the docs, whose chunks are stored
C30_Witness ==
    /\ pc = "count"
    /\ manifest.youtube = <<UrlShortB>>
    /\ apiKey = ""
    /\ manifest.kb_sources = <<KbNotes, KbDocs>>
    /\ \A j \in Positions("fetch_transcript_chunks") : log[j].ok /\ log[j].n = 0
    /\ Cardinality({j \in Positions("split_by_sections") : log[j].n = 0}) = 2
    /\ Cardinality(Positions("add_chunks")) = 2
    /\ total_failed = 0
    /\ total_added = 4

====
